---- MODULE Spec2Model ----
(***************************************************************************)
(* A model of the lab sample-entry core of mamascor/reed: the oven ledger, *)
(* the per-job progress cursor and backup log, the moisture and soil       *)
(* suction writers, and the capture session that drives them.              *)
(*                                                                         *)
(* Files are modelled by their parsed content plus a state: "absent" (no   *)
(* file), "corrupt" (present, not parsable: what a failed os.WriteFile     *)
(* leaves after truncating) and "ok".  Every write can end in one of three *)
(* outcomes (IOOutcomes): written, failed with the file untouched, failed  *)
(* with the file truncated.                                                *)
(***************************************************************************)
EXTENDS Integers, Sequences, FiniteSets, TLC

VARIABLES
    CheckDuplicateCans,   \* pkg.CheckDuplicateCans, the process-wide toggle
    loopVarPerIteration,  \* language version of the build: TRUE for Go >= 1.22
    ovenFile,             \* oven_tracking.json
    ovenRet,              \* what the last ledger operation returned
    progressFile,         \* ex_project/<job>/progress.json, by job
    progressRet,          \* what the last SaveProgress / LoadProgress returned
    workDoc,              \* ex_project/<job>/Lab_<job>.xlsm on disk, by job
    exportDoc,            \* ex_project/<job>/SoilSuction_<job>.xlsx on disk, by job
    backupFile,           \* ex_project/<job>/backup.json, by job
    sess,                 \* the capture session: the closure of NewPullSampleScreen
    log,                  \* what the last handler did and the errors it logged
    faults,               \* I/O failures so far
    labRows,              \* the rows of the first sheet of a lab file (job.LabFilePath)
    jobData,              \* what ExcelToJSON returned for them
    morning,              \* the morning count screen: the closure of NewMorningCountScreen
    handler,              \* what the event loop of the application is running
    updates,              \* the display refreshes queued with QueueUpdateDraw
    timeDisplay           \* "Samples Done" as the timing box shows it

vars == <<CheckDuplicateCans, loopVarPerIteration, ovenFile, ovenRet,
          progressFile, progressRet, workDoc, exportDoc, backupFile, sess, log,
          faults, labRows, jobData, morning, handler, updates, timeDisplay>>

sessionVars == <<workDoc, exportDoc, backupFile, sess, log, faults>>

configVars == <<CheckDuplicateCans, loopVarPerIteration>>

ovenVars == <<ovenFile, ovenRet>>

progressVars == <<progressFile, progressRet>>

parseVars == <<labRows, jobData>>

timerVars == <<handler, updates, timeDisplay>>

----------------------------------------------------------------------------
(* Input domains.                                                          *)

Jobs == {"J1", "J2"}

Cans == {"c1", "c2", "c3"}

\* What a direct call of AddCanToOven is given besides the container number
\* (job, boring, depth, sheet, column), and what time.Now() reads in it.
OvenInputs ==
    { [job |-> "J1", boring |-> "B-1", depth |-> "0-2", sheet |-> "Moisture",
       column |-> <<"B">>, time |-> "t1"],
      [job |-> "J1", boring |-> "B-1", depth |-> "2-4", sheet |-> "Moisture",
       column |-> <<"C">>, time |-> "t2"],
      [job |-> "J2", boring |-> "B-2", depth |-> "0-2", sheet |-> "Moisture2",
       column |-> <<"B">>, time |-> "t2"] }

IOOutcomes == {"ok", "failUnchanged", "failTruncated"}

----------------------------------------------------------------------------
(* Oven ledger: src/pkg/file-management.go                                 *)

NoCan == [can_number |-> "", job_number |-> "", boring_number |-> "", depth |-> "",
          time_in |-> "", moisture_sheet |-> "", moisture_column |-> <<>>]

OvenAbsent == [st |-> "absent", cans |-> <<>>]

OvenCorrupt == [st |-> "corrupt", cans |-> <<>>]

OvenOk(cans) == [st |-> "ok", cans |-> cans]

\* LoadOvenTracking: an absent file is an empty ledger, an unparsable one an error.
LoadOvenTracking(file) ==
    CASE file.st = "absent"  -> [err |-> "nil", cans |-> <<>>]
      [] file.st = "corrupt" -> [err |-> "Malformed", cans |-> <<>>]
      [] OTHER               -> [err |-> "nil", cans |-> file.cans]

\* The JSON names of the fields of OvenCanData, in the order of the struct.
CanTags == <<"can_number", "job_number", "boring_number", "depth", "time_in",
             "moisture_sheet", "moisture_column">>

\* Mutant: the last field of the struct is left out of the object.
MarshalCanShort(can) ==
    [i \in 1..(Len(CanTags) - 1) |-> <<CanTags[i], can[CanTags[i]]>>]

\* json.MarshalIndent of one record: an object of name/value pairs, one per
\* field, in the order of the struct.
MarshalCan(can) ==
    [i \in 1..Len(CanTags) |-> <<CanTags[i], can[CanTags[i]]>>]

\* json.MarshalIndent of the list of records: an array of objects, in order.
MarshalIndent(cans) == [i \in 1..Len(cans) |-> MarshalCan(cans[i])]

\* The value json.Unmarshal stores in the field of a name: that of the
\* last pair of the name in the object, the zero value when there is none.
Member(obj, tag, zero) ==
    IF \E i \in 1..Len(obj) : obj[i][1] = tag
    THEN obj[CHOOSE i \in 1..Len(obj) :
                /\ obj[i][1] = tag
                /\ \A k \in (i + 1)..Len(obj) : obj[k][1] # tag][2]
    ELSE zero

\* json.Unmarshal of one object into an OvenCanData.
UnmarshalCan(obj) ==
    [can_number      |-> Member(obj, "can_number", ""),
     job_number      |-> Member(obj, "job_number", ""),
     boring_number   |-> Member(obj, "boring_number", ""),
     depth           |-> Member(obj, "depth", ""),
     time_in         |-> Member(obj, "time_in", ""),
     moisture_sheet  |-> Member(obj, "moisture_sheet", ""),
     moisture_column |-> Member(obj, "moisture_column", <<>>)]

\* json.Unmarshal of the array of objects, in order.
Unmarshal(text) == [i \in 1..Len(text) |-> UnmarshalCan(text[i])]

\* SaveOvenTracking: the file after the write, by outcome. The file holds the
\* text of MarshalIndent, kept here as the records a load reads back from it.
SaveOvenTracking(file, cans, outcome) ==
    CASE outcome = "ok"            -> OvenOk(Unmarshal(MarshalIndent(cans)))
      [] outcome = "failUnchanged" -> file
      [] OTHER                     -> OvenCorrupt

\* Mutant: the search stops after the first record.
OvenContainsFirstOnly(cans, canNumber) ==
    Len(cans) > 0 /\ cans[1].can_number = canNumber

\* The loop of AddCanToOven that looks for the container number.
OvenContains(cans, canNumber) ==
    \E i \in 1..Len(cans) : cans[i].can_number = canNumber

NewOvenCan(canNumber, in) ==
    [can_number |-> canNumber, job_number |-> in.job, boring_number |-> in.boring,
     depth |-> in.depth, time_in |-> in.time, moisture_sheet |-> in.sheet,
     moisture_column |-> in.column]

\* Mutant: the comparison of the filter is inverted.
RemoveFilterInverted(cans, canNumber) ==
    SelectSeq(cans, LAMBDA r : r.can_number = canNumber)

\* newCans of RemoveCanFromOven: every record but those of canNumber, in order.
RemoveFilter(cans, canNumber) ==
    SelectSeq(cans, LAMBDA r : r.can_number # canNumber)

\* removedCan of RemoveCanFromOven is &can, the address of the range variable.
\* With one variable per iteration (perIter) it still holds the matching
\* record after the loop; with one variable for the whole loop it holds what
\* the last iteration copied into it, the last record of the list.
RemovedCan(cans, canNumber, perIter) ==
    IF perIter
    THEN cans[CHOOSE i \in 1..Len(cans) :
                 /\ cans[i].can_number = canNumber
                 /\ \A k \in (i+1)..Len(cans) : cans[k].can_number # canNumber]
    ELSE cans[Len(cans)]

\* What a ledger operation was called with (container, job) and returned:
\* its error and record, and the answer of a query (found, count, cans).
Ret(op, arg, job, err, rec) ==
    [op |-> op, arg |-> arg, job |-> job, err |-> err, rec |-> rec,
     found |-> FALSE, count |-> 0, cans |-> <<>>]

\* Mutant: a container counts as occupied only within the adding job.
AddCanToOvenPerJob(canNumber, in, outcome) ==
    LET tracking == LoadOvenTracking(ovenFile) IN
    IF tracking.err # "nil"
    THEN /\ ovenRet' = Ret("add", canNumber, in.job, tracking.err, NoCan)
         /\ UNCHANGED ovenFile
    ELSE IF \E i \in 1..Len(tracking.cans) :
                /\ tracking.cans[i].can_number = canNumber
                /\ tracking.cans[i].job_number = in.job
    THEN /\ ovenRet' = Ret("add", canNumber, in.job, "AlreadyOccupied", NoCan)
         /\ UNCHANGED ovenFile
    ELSE /\ ovenFile' = SaveOvenTracking(ovenFile,
                            Append(tracking.cans, NewOvenCan(canNumber, in)), outcome)
         /\ ovenRet' = Ret("add", canNumber, in.job,
                           IF outcome = "ok" THEN "nil" ELSE "IOFailure", NoCan)

AddCanToOven(canNumber, in, outcome) ==
    LET tracking == LoadOvenTracking(ovenFile) IN
    IF tracking.err # "nil"
    THEN /\ ovenRet' = Ret("add", canNumber, in.job, tracking.err, NoCan)
         /\ UNCHANGED ovenFile
    ELSE IF OvenContains(tracking.cans, canNumber)
    THEN /\ ovenRet' = Ret("add", canNumber, in.job, "AlreadyOccupied", NoCan)
         /\ UNCHANGED ovenFile
    ELSE /\ ovenFile' = SaveOvenTracking(ovenFile,
                            Append(tracking.cans, NewOvenCan(canNumber, in)), outcome)
         /\ ovenRet' = Ret("add", canNumber, in.job,
                           IF outcome = "ok" THEN "nil" ELSE "IOFailure", NoCan)

RemoveCanFromOven(canNumber, outcome) ==
    LET tracking == LoadOvenTracking(ovenFile) IN
    IF tracking.err # "nil"
    THEN /\ ovenRet' = Ret("remove", canNumber, "", tracking.err, NoCan)
         /\ UNCHANGED ovenFile
    ELSE IF ~OvenContains(tracking.cans, canNumber)
    THEN /\ ovenRet' = Ret("remove", canNumber, "", "NotOccupied", NoCan)
         /\ UNCHANGED ovenFile
    ELSE /\ ovenFile' = SaveOvenTracking(ovenFile,
                            RemoveFilter(tracking.cans, canNumber), outcome)
         /\ ovenRet' = IF outcome = "ok"
                       THEN Ret("remove", canNumber, "", "nil",
                                RemovedCan(tracking.cans, canNumber, loopVarPerIteration))
                       ELSE Ret("remove", canNumber, "", "IOFailure", NoCan)

AddCanToOvenCall ==
    \E c \in Cans, in \in OvenInputs, o \in IOOutcomes :
        AddCanToOven(c, in, o) /\ UNCHANGED <<configVars, timerVars, parseVars, morning,
                                              progressVars, sessionVars>>

RemoveCanFromOvenCall ==
    \E c \in Cans, o \in IOOutcomes :
        RemoveCanFromOven(c, o) /\ UNCHANGED <<configVars, timerVars, parseVars, morning,
                                               progressVars, sessionVars>>

----------------------------------------------------------------------------
(* Progress cursor: src/pkg/file-management.go                             *)

DigitChars == <<"0", "1", "2", "3", "4", "5", "6", "7", "8", "9">>

\* Mutant: only the last digit is written.
FormatNatLastDigit(n) == <<DigitChars[(n % 10) + 1]>>

RECURSIVE FormatNat(_)
\* The decimal text json.MarshalIndent writes for a non-negative int.
FormatNat(n) ==
    IF n < 10 THEN <<DigitChars[n + 1]>>
    ELSE FormatNat(n \div 10) \o <<DigitChars[(n % 10) + 1]>>

FormatInt(n) == IF n < 0 THEN <<"-">> \o FormatNat(-n) ELSE FormatNat(n)

DigitValue(ch) == CHOOSE d \in 0..9 : DigitChars[d + 1] = ch

RECURSIVE ParseNat(_)
\* The int json.Unmarshal reads from a decimal text.
ParseNat(txt) ==
    IF Len(txt) = 0 THEN 0
    ELSE ParseNat(SubSeq(txt, 1, Len(txt) - 1)) * 10 + DigitValue(txt[Len(txt)])

ParseInt(txt) ==
    IF Len(txt) > 0 /\ txt[1] = "-" THEN -ParseNat(Tail(txt)) ELSE ParseNat(txt)

ProgressAbsent == [st |-> "absent", job_number |-> "", current_sample_index |-> <<>>]

ProgressCorrupt == [st |-> "corrupt", job_number |-> "", current_sample_index |-> <<>>]

\* ProgressData as marshalled (last_saved, the USER variable, is never read back).
ProgressOk(job, n) ==
    [st |-> "ok", job_number |-> job, current_sample_index |-> FormatInt(n)]

\* Mutant: the index stored is the one before the capture.
SaveProgressStale(file, job, n, outcome) ==
    CASE outcome = "ok"            -> ProgressOk(job, IF n > 0 THEN n - 1 ELSE 0)
      [] outcome = "failUnchanged" -> file
      [] OTHER                     -> ProgressCorrupt

\* SaveProgress: the progress file of the job after the call, by outcome.
SaveProgress(file, job, n, outcome) ==
    CASE outcome = "ok"            -> ProgressOk(job, n)
      [] outcome = "failUnchanged" -> file
      [] OTHER                     -> ProgressCorrupt

\* LoadProgress: 0 and no error for an absent file, 0 and the error for an
\* unparsable one, the stored index otherwise.
LoadProgress(file) ==
    CASE file.st = "absent"  -> [n |-> 0, err |-> "nil"]
      [] file.st = "corrupt" -> [n |-> 0, err |-> "Malformed"]
      [] OTHER               -> [n |-> ParseInt(file.current_sample_index), err |-> "nil"]

PRet(op, job, n, err) == [op |-> op, job |-> job, n |-> n, err |-> err]

\* The indices direct calls of SaveProgress are made with.
ProgressValues == {-3, 0, 1, 7, 12, 120}

SaveProgressCall ==
    \E j \in Jobs, n \in ProgressValues, o \in IOOutcomes :
        /\ progressFile' = [progressFile EXCEPT ![j] = SaveProgress(@, j, n, o)]
        /\ progressRet' = PRet("save", j, n, IF o = "ok" THEN "nil" ELSE "IOFailure")
        /\ UNCHANGED <<configVars, timerVars, parseVars, morning, ovenVars, sessionVars>>

LoadProgressCall ==
    \E j \in Jobs :
        /\ progressRet' = PRet("load", j, LoadProgress(progressFile[j]).n,
                                LoadProgress(progressFile[j]).err)
        /\ UNCHANGED <<progressFile, configVars, timerVars, parseVars, morning,
                       ovenVars, sessionVars>>

----------------------------------------------------------------------------
(* The lab workbook and its two indexes: src/pkg/file-management.go        *)
(*                                                                         *)
(* A workbook is the sequence of its sheets in sheet order.  A sheet has a *)
(* name, the number of rows GetRows returns (nrows), its columns from      *)
(* column B on (cols: rows 9 to 17 of each) and its rows from row 10 on     *)
(* (rows: columns B, C and D of each); GetRows returns an error on a sheet  *)
(* that is not readable.                                                   *)

Col(boring, depth) ==
    [boring |-> boring, depth |-> depth, r11 |-> "", r12 |-> "", r13 |-> "",
     r14 |-> "", r15 |-> "", r16 |-> "", r17 |-> ""]

Row(boring, depth) == [boring |-> boring, depth |-> depth, d |-> ""]

Sheet(name, nrows, cols, rows) ==
    [name |-> name, nrows |-> nrows, cols |-> cols, rows |-> rows, readable |-> TRUE]

\* A sheet GetRows fails on.
Unreadable(sheet) == [sheet EXCEPT !.readable = FALSE]

\* strings.HasPrefix(name, "Moisture"), over the sheet names of the model.
HasPrefixMoisture(name) == name \in {"Moisture", "Moisture2", "Moisture (old)"}

\* strings.HasPrefix(name, "Soil Suction"), over the sheet names of the model.
HasPrefixSoilSuction(name) ==
    name \in {"Soil Suction", "Soil Suction2", "Soil Suction (old)"}

\* strings.Contains(name, " "), over the sheet names of the model.
ContainsSpace(name) ==
    name \in {"Main Form", "Moisture (old)", "Soil Suction", "Soil Suction2",
              "Soil Suction (old)"}

\* strings.TrimSpace, over the cell texts of the model.
TrimSpace(txt) ==
    CASE txt = " "    -> ""
      [] txt = "B-1 " -> "B-1"
      [] OTHER        -> txt

IsMoistureSheet(name) ==
    name = "Moisture" \/ (HasPrefixMoisture(name) /\ ~ContainsSpace(name))

IsSoilSuctionSheet(name) ==
    name = "Soil Suction" \/ HasPrefixSoilSuction(name)

Letters == <<"A", "B", "C", "D", "E", "F", "G", "H", "I", "J", "K", "L", "M",
             "N", "O", "P", "Q", "R", "S", "T", "U", "V", "W", "X", "Y", "Z">>

RECURSIVE getColumnLetter(_)
\* getColumnLetter: the column letters of a 1-based column index.
getColumnLetter(colIdx) ==
    IF colIdx <= 0 THEN <<>>
    ELSE getColumnLetter((colIdx - 1) \div 26) \o <<Letters[((colIdx - 1) % 26) + 1]>>

\* Mutant: the scan starts one column late, at column C.
MoistureSlotsFromC(doc) ==
    { sc \in (1..Len(doc)) \X (2..8) :
        /\ sc[2] <= Len(doc[sc[1]].cols)
        /\ IsMoistureSheet(doc[sc[1]].name)
        /\ doc[sc[1]].readable
        /\ doc[sc[1]].nrows >= 10
        /\ TrimSpace(doc[sc[1]].cols[sc[2]].boring) # ""
        /\ TrimSpace(doc[sc[1]].cols[sc[2]].depth) # "" }

\* The (sheet, column) places the scan of InitMoistureTestFile maps, in scan
\* order: sheet s of the workbook, element c of its columns (column c + 1).
MoistureSlots(doc) ==
    { sc \in (1..Len(doc)) \X (1..8) :
        /\ sc[2] <= Len(doc[sc[1]].cols)
        /\ IsMoistureSheet(doc[sc[1]].name)
        /\ doc[sc[1]].readable
        /\ doc[sc[1]].nrows >= 10
        /\ TrimSpace(doc[sc[1]].cols[sc[2]].boring) # ""
        /\ TrimSpace(doc[sc[1]].cols[sc[2]].depth) # "" }

SlotKey(doc, sc) ==
    <<TrimSpace(doc[sc[1]].cols[sc[2]].boring), TrimSpace(doc[sc[1]].cols[sc[2]].depth)>>

Later(a, b) == a[1] > b[1] \/ (a[1] = b[1] /\ a[2] > b[2])

\* sampleColMap: (boring, depth) -> (sheet, column letters); a place scanned
\* later replaces an earlier one with the same key.
BuildSampleColMap(doc) ==
    LET slots == MoistureSlots(doc)
        keys  == { SlotKey(doc, sc) : sc \in slots }
        last(key) == CHOOSE sc \in slots :
                        /\ SlotKey(doc, sc) = key
                        /\ \A o \in slots : SlotKey(doc, o) = key => ~Later(o, sc)
    IN  [key \in keys |-> [sheet |-> doc[last(key)[1]].name,
                           column |-> getColumnLetter(last(key)[2] + 1)]]

\* The (sheet, row) places the scan of InitSoilSuctionFile maps: element r
\* of the rows of sheet s is row r + 9.
SuctionSlots(doc) ==
    { sr \in (1..Len(doc)) \X (1..8) :
        /\ sr[2] <= Len(doc[sr[1]].rows)
        /\ IsSoilSuctionSheet(doc[sr[1]].name)
        /\ doc[sr[1]].readable
        /\ TrimSpace(doc[sr[1]].rows[sr[2]].boring) # ""
        /\ TrimSpace(doc[sr[1]].rows[sr[2]].depth) # "" }

RowKey(doc, sr) ==
    <<TrimSpace(doc[sr[1]].rows[sr[2]].boring), TrimSpace(doc[sr[1]].rows[sr[2]].depth)>>

\* sampleRowMap: (boring, depth) -> (sheet, row number).
BuildSampleRowMap(doc) ==
    LET slots == SuctionSlots(doc)
        keys  == { RowKey(doc, sr) : sr \in slots }
        last(key) == CHOOSE sr \in slots :
                        /\ RowKey(doc, sr) = key
                        /\ \A o \in slots : RowKey(doc, o) = key => ~Later(o, sr)
    IN  [key \in keys |-> [sheet |-> doc[last(key)[1]].name, row |-> last(key)[2] + 9]]

\* The index of the sheet called name in the workbook (0: no such sheet).
SheetIndex(doc, name) ==
    IF \E s \in 1..Len(doc) : doc[s].name = name
    THEN CHOOSE s \in 1..Len(doc) : doc[s].name = name
    ELSE 0

\* The column index (element of cols) of column letters.
ColumnElement(column) == CHOOSE c \in 1..8 : getColumnLetter(c + 1) = column

\* Mutant: the container number is written two rows too high, in row 9.
SetMoistureCellsRow9(doc, loc, canNo, canWeight, wetWeight) ==
    LET s == SheetIndex(doc, loc.sheet)
        c == ColumnElement(loc.column)
    IN  [doc EXCEPT ![s].cols[c].boring = canNo,
                    ![s].cols[c].r12 = wetWeight,
                    ![s].cols[c].r15 = canWeight,
                    ![s].nrows = IF @ < 15 THEN 15 ELSE @]

\* The three SetCellValue calls of WriteMoistureSample, on the open workbook.
SetMoistureCells(doc, loc, canNo, canWeight, wetWeight) ==
    LET s == SheetIndex(doc, loc.sheet)
        c == ColumnElement(loc.column)
    IN  [doc EXCEPT ![s].cols[c].r11 = canNo,
                    ![s].cols[c].r12 = wetWeight,
                    ![s].cols[c].r15 = canWeight,
                    ![s].nrows = IF @ < 15 THEN 15 ELSE @]

\* SetCellValue(sheet, "D<row>", suctionCanNo) of WriteSoilSuctionSample.
SetSuctionCell(doc, loc, suctionCanNo) ==
    LET s == SheetIndex(doc, loc.sheet)
    IN  [doc EXCEPT ![s].rows[loc.row - 9].d = suctionCanNo]

\* file.Save() of the lab workbook: what is on disk after it, by outcome.
SaveDoc(disk, file, outcome) == IF outcome = "ok" THEN file ELSE disk

\* WriteMoistureSample on writer w (its open workbook w.file, its index
\* w.sampleColMap) with disk the saved workbook: the error returned, the
\* open workbook and the saved one after the call.
WriteMoistureSample(w, disk, key, canNo, canWeight, wetWeight, outcome) ==
    IF key \notin DOMAIN w.sampleColMap
    THEN [err |-> "NoMapping", file |-> w.file, disk |-> disk]
    ELSE LET file == SetMoistureCells(w.file, w.sampleColMap[key], canNo, canWeight, wetWeight)
         IN  [err  |-> IF outcome = "ok" THEN "nil" ELSE "IOFailure",
              file |-> file,
              disk |-> SaveDoc(disk, file, outcome)]

\* GetSampleMapping: whether the key is mapped.
GetSampleMapping(w, key) == key \in DOMAIN w.sampleColMap

----------------------------------------------------------------------------
(* The separate soil suction workbook (the export) and the soil suction    *)
(* writer: src/pkg/file-management.go                                      *)
(*                                                                         *)
(* The export is the sequence of its sheets (pages); a page is the         *)
(* sequence of its rows, row 1 being the header.  Page n is the sheet      *)
(* "Soil Suction" for n = 1 and "Soil Suction <n>" otherwise.              *)

\* A page is full when its next row would be beyond this row (37 records
\* and the header).
MaxSheetRows == 38

HeaderRow == [date |-> "Date", boring |-> "Boring", depth |-> "Depth", can |-> "Can No"]

BlankRow == [date |-> "", boring |-> "", depth |-> "", can |-> ""]

ExportAbsent == [st |-> "absent", pages |-> <<>>]

ExportOk(pages) == [st |-> "ok", pages |-> pages]

\* The four SetCellValue calls that write one record in row r of a page.
SetRow(page, r, rec) ==
    IF r <= Len(page) THEN [page EXCEPT ![r] = rec]
    ELSE page \o [i \in 1..(r - Len(page)) |-> IF i = r - Len(page) THEN rec ELSE BlankRow]

\* SetCellValue on sheet number n: an error, ignored, when there is no such sheet.
SetExportRow(pages, n, r, rec) ==
    IF n \in 1..Len(pages) THEN [pages EXCEPT ![n] = SetRow(@, r, rec)] ELSE pages

\* The page cursor InitSoilSuctionFile reads from an existing export.
ReopenCursor(pages) ==
    LET n       == Len(pages)
        nextRow == (IF n >= 1 THEN Len(pages[n]) ELSE 0) + 1
    IN  IF nextRow > MaxSheetRows
        THEN [separateSheetNum |-> n + 1, separateNextRow |-> 2]
        ELSE [separateSheetNum |-> n, separateNextRow |-> nextRow]

NoSuctionWriter ==
    [open |-> FALSE, sampleRowMap |-> <<>>, separateFile |-> <<>>,
     separateNextRow |-> 0, separateSheetNum |-> 0]

\* InitSoilSuctionFile on the shared open workbook: the writer, the error and
\* the export on disk after the call.  A new export is created and saved when
\* there is none; an existing one is opened and its cursor reconstructed.
InitSoilSuctionFile(exp, sharedFile, outcome) ==
    IF exp.st = "absent"
    THEN IF outcome = "ok"
         THEN [err |-> "nil", exp |-> ExportOk(<<<<HeaderRow>>>>),
               w |-> [open |-> TRUE, sampleRowMap |-> BuildSampleRowMap(sharedFile),
                      separateFile |-> <<<<HeaderRow>>>>,
                      separateNextRow |-> 2, separateSheetNum |-> 1]]
         ELSE [err |-> "IOFailure", exp |-> exp, w |-> NoSuctionWriter]
    ELSE [err |-> "nil", exp |-> exp,
          w |-> [open |-> TRUE, sampleRowMap |-> BuildSampleRowMap(sharedFile),
                 separateFile |-> exp.pages,
                 separateNextRow |-> ReopenCursor(exp.pages).separateNextRow,
                 separateSheetNum |-> ReopenCursor(exp.pages).separateSheetNum]]

\* Mutant: the page is turned one row late.
TurnPageLate(w) ==
    IF w.separateNextRow > MaxSheetRows + 1
    THEN [w EXCEPT !.separateSheetNum = @ + 1,
                   !.separateFile = Append(@, <<HeaderRow>>),
                   !.separateNextRow = 2]
    ELSE w

\* The page step of WriteSoilSuctionSample: a new sheet with its header
\* when the cursor is beyond the last row of a page.
TurnPage(w) ==
    IF w.separateNextRow > MaxSheetRows
    THEN [w EXCEPT !.separateSheetNum = @ + 1,
                   !.separateFile = Append(@, <<HeaderRow>>),
                   !.separateNextRow = 2]
    ELSE w

\* Mutant: the record is appended to the export before the key is looked up.
WriteSoilSuctionSampleLateCheck(w, file, disk, exp, key, suctionCanNo, date, oLab, oExp) ==
    IF key \notin DOMAIN w.sampleRowMap
    THEN LET x == [TurnPage(w) EXCEPT !.separateFile =
                     SetExportRow(@, TurnPage(w).separateSheetNum, TurnPage(w).separateNextRow,
                                  [date |-> date, boring |-> key[1], depth |-> key[2],
                                   can |-> suctionCanNo])]
         IN  [err |-> "NoMapping", file |-> file, disk |-> disk,
              w |-> [x EXCEPT !.separateNextRow = @ + 1], exp |-> ExportOk(x.separateFile)]
    ELSE LET file2 == SetSuctionCell(file, w.sampleRowMap[key], suctionCanNo)
         IN  IF oLab # "ok"
             THEN [err |-> "IOFailure", file |-> file2, disk |-> disk, w |-> w, exp |-> exp]
             ELSE LET w2 == TurnPage(w)
                      w3 == [w2 EXCEPT !.separateFile =
                                SetExportRow(@, w2.separateSheetNum, w2.separateNextRow,
                                             [date |-> date, boring |-> key[1],
                                              depth |-> key[2], can |-> suctionCanNo])]
                  IN  IF oExp # "ok"
                      THEN [err |-> "IOFailure", file |-> file2, disk |-> file2,
                            w |-> w3, exp |-> exp]
                      ELSE [err |-> "nil", file |-> file2, disk |-> file2,
                            w |-> [w3 EXCEPT !.separateNextRow = @ + 1],
                            exp |-> ExportOk(w3.separateFile)]

\* WriteSoilSuctionSample on writer w, whose lab workbook is the shared open
\* one (file): the error returned, the open workbook, the saved one, the
\* writer and the export on disk after the call.
WriteSoilSuctionSample(w, file, disk, exp, key, suctionCanNo, date, oLab, oExp) ==
    IF key \notin DOMAIN w.sampleRowMap
    THEN [err |-> "NoMapping", file |-> file, disk |-> disk, w |-> w, exp |-> exp]
    ELSE LET file2 == SetSuctionCell(file, w.sampleRowMap[key], suctionCanNo)
         IN  IF oLab # "ok"
             THEN [err |-> "IOFailure", file |-> file2, disk |-> disk, w |-> w, exp |-> exp]
             ELSE LET w2 == TurnPage(w)
                      w3 == [w2 EXCEPT !.separateFile =
                                SetExportRow(@, w2.separateSheetNum, w2.separateNextRow,
                                             [date |-> date, boring |-> key[1],
                                              depth |-> key[2], can |-> suctionCanNo])]
                  IN  IF oExp # "ok"
                      THEN [err |-> "IOFailure", file |-> file2, disk |-> file2,
                            w |-> w3, exp |-> exp]
                      ELSE [err |-> "nil", file |-> file2, disk |-> file2,
                            w |-> [w3 EXCEPT !.separateNextRow = @ + 1],
                            exp |-> ExportOk(w3.separateFile)]

----------------------------------------------------------------------------
(* Backup log: src/pkg/file-management.go                                  *)

BackupAbsent == [st |-> "absent", job_number |-> "", total_samples |-> 0, samples |-> <<>>]

BackupCorrupt == [st |-> "corrupt", job_number |-> "", total_samples |-> 0, samples |-> <<>>]

BackupOk(job, samples) ==
    [st |-> "ok", job_number |-> job, total_samples |-> Len(samples), samples |-> samples]

NewSampleBackup(job, key, canNo, canWeight, wetWeight, suctionCanNo, t) ==
    [job_number |-> job, boring_number |-> key[1], depth |-> key[2],
     can_number |-> canNo, can_weight |-> canWeight, wet_weight |-> wetWeight,
     suction_can_no |-> suctionCanNo, timestamp |-> t]

\* What SaveSampleBackup appends to: the stored log when it parses, an empty
\* log of the job when there is no file or it does not parse.
BackupBase(file, job) == IF file.st = "ok" THEN file ELSE BackupOk(job, <<>>)

\* Mutant: the record is appended and the count is left as it was.
AppendSampleKeepCount(data, rec) == [data EXCEPT !.samples = Append(@, rec)]

\* append(backup.Samples, newSample) and TotalSamples = len(backup.Samples).
AppendSample(data, rec) ==
    [data EXCEPT !.samples = Append(@, rec),
                 !.total_samples = Len(Append(data.samples, rec))]

\* Mutant: an unparsable log is an error.
SaveSampleBackupErrStrict(file, outcome) ==
    IF file.st = "corrupt" THEN "Malformed" ELSE IF outcome = "ok" THEN "nil" ELSE "IOFailure"

\* The error SaveSampleBackup returns: that of the write only.
SaveSampleBackupErr(file, outcome) == IF outcome = "ok" THEN "nil" ELSE "IOFailure"

\* SaveSampleBackup: the backup file after the call, by outcome.  An absent
\* or unparsable file is replaced by an empty log before the append.
SaveSampleBackup(file, job, key, canNo, canWeight, wetWeight, suctionCanNo, t, outcome) ==
    LET new == AppendSample(BackupBase(file, job),
                            NewSampleBackup(job, key, canNo, canWeight, wetWeight,
                                            suctionCanNo, t))
    IN  CASE outcome = "ok"            -> new
          [] outcome = "failUnchanged" -> file
          [] OTHER                     -> BackupCorrupt

\* LoadBackupData: the log read back, an error when the file is missing or
\* unparsable.
LoadBackupData(file) ==
    IF file.st = "ok"
    THEN [err |-> "nil", data |-> file]
    ELSE [err |-> IF file.st = "absent" THEN "IOFailure" ELSE "Malformed", data |-> file]

\* SaveBackupDataToFile: the backup file after the log is rewritten, by outcome.
SaveBackupDataToFile(file, data, outcome) ==
    CASE outcome = "ok"            -> data
      [] outcome = "failUnchanged" -> file
      [] OTHER                     -> BackupCorrupt

----------------------------------------------------------------------------
(* The lab documents of the jobs and what ExcelToJSON reads from them.     *)

LabAbsent == [st |-> "absent", sheets |-> <<>>]

LabOk(sheets) == [st |-> "ok", sheets |-> sheets]

\* The jobs a capture session is opened for.
SessionJobs == {"J1"}

\* The lab file of a job (job.LabFilePath): samples B-1 0-2 and B-1 2-4
\* have a moisture column and a soil suction row, and sample B-2 0-2 is
\* listed on the main form only.
SourceDoc(job) ==
    <<Sheet("Main Form", 12, <<>>, <<>>),
      Sheet("Moisture", 17, <<Col("B-1", "0-2"), Col("B-1", "2-4")>>, <<>>),
      Sheet("Soil Suction", 12, <<>>, <<Row("B-1", "0-2"), Row("B-1", "2-4")>>)>>

\* A row of the first sheet of a lab file: the text of its first cell, of its
\* second cell (the depth) and the tests marked "x" in its test columns.
LabRow(first, depth, marks) == [first |-> first, depth |-> depth, marks |-> marks]

\* The rows above the sample table (row indexes 0 to 5) carry the job header
\* and are not in labRows: the first row of labRows has this row index, the
\* last one at which a row with a blank first cell is not a sample row.
HeaderRows == 6

\* strings.HasPrefix(firstCell, "B-"), over the cell texts of the model.
HasPrefixB(txt) == txt \in {"B-1", "B-2"}

\* len(row): GetRows cuts a row after its last cell with a value.
RowLen(row) ==
    CASE row.marks # {} -> 5
      [] row.depth # "" -> 2
      [] row.first # "" -> 1
      [] OTHER          -> 0

\* The last case of the switch of ExcelToJSON: the row is a sample row.
IsSampleRow(row, rowIdx) ==
    /\ RowLen(row) # 0
    /\ HasPrefixB(TrimSpace(row.first)) \/ (rowIdx > HeaderRows /\ TrimSpace(row.first) = "")

\* The sample read from a sample row: the boring number only when the first
\* cell carries one.
ParseSampleRow(row) ==
    [boring |-> IF HasPrefixB(TrimSpace(row.first)) THEN TrimSpace(row.first) ELSE "",
     depth  |-> TrimSpace(row.depth),
     tests  |-> row.marks]

RECURSIVE CollectSamples(_, _)
\* The first loop of ExcelToJSON: the samples of the sample rows that have a
\* depth, in row order.
CollectSamples(rows, rowIdx) ==
    IF Len(rows) = 0 THEN <<>>
    ELSE (IF /\ IsSampleRow(rows[1], rowIdx)
             /\ RowLen(rows[1]) > 1
             /\ ParseSampleRow(rows[1]).depth # ""
          THEN <<ParseSampleRow(rows[1])>>
          ELSE <<>>) \o CollectSamples(Tail(rows), rowIdx + 1)

RECURSIVE AssignBoringNumbers(_, _)
\* The second loop of ExcelToJSON, over the samples collected: a sample
\* without a boring number takes currentBoring.
AssignBoringNumbers(samples, currentBoring) ==
    IF Len(samples) = 0 THEN <<>>
    ELSE IF samples[1].boring # ""
         THEN <<samples[1]>> \o AssignBoringNumbers(Tail(samples), samples[1].boring)
         ELSE <<[samples[1] EXCEPT !.boring = currentBoring]>>
                  \o AssignBoringNumbers(Tail(samples), currentBoring)

NoJobData == [parsed |-> FALSE, total_samples |-> 0, samples |-> <<>>]

\* ExcelToJSON on the rows of the first sheet (the header fields left out).
ExcelToJSON(rows) ==
    LET samples == AssignBoringNumbers(CollectSamples(rows, HeaderRows), "")
    IN  [parsed |-> TRUE, total_samples |-> Len(samples), samples |-> samples]

\* The sample table of the lab file of the jobs a session is opened for.
MainFormRows ==
    <<LabRow("B-1", "0-2", {"Moisture Content", "Soil Suction"}),
      LabRow("", "2-4", {"Moisture Content", "Soil Suction"}),
      LabRow("B-2", "0-2", {"Moisture Content", "Soil Suction"})>>

ParsedSamples == ExcelToJSON(MainFormRows).samples

\* jobData.Samples of ExcelToJSON for the lab file of a job.
JobSamples(job) == ParsedSamples

SampleKey(sample) == <<sample.boring, sample.depth>>

\* hasSuction of getCurrentSampleInfo: some test of the sample contains "Soil Suction".
HasSuction(sample) == "Soil Suction" \in sample.tests

\* Mutant: the lab file is copied over the working copy at every start.
InitMoistureTestFileCopyAlways(lab, source) ==
    [lab |-> LabOk(source),
     w   |-> [file |-> source, sampleColMap |-> BuildSampleColMap(source)]]

\* InitMoistureTestFile: the working copy is made from the lab file when
\* there is none, then opened and scanned.
InitMoistureTestFile(lab, source) ==
    LET copy == IF lab.st = "absent" THEN LabOk(source) ELSE lab
    IN  [lab |-> copy,
         w   |-> [file |-> copy.sheets, sampleColMap |-> BuildSampleColMap(copy.sheets)]]

\* GetCansInOven: the records of the ledger, or the error of the load.
GetCansInOven(file) == LoadOvenTracking(file)

\* Mutant: no container is ever reported as being in the oven.
IsCanInOvenNever(file, canNumber) ==
    [found |-> FALSE, rec |-> NoCan, err |-> LoadOvenTracking(file).err]

\* Mutant: the record returned is the last one of the ledger.
IsCanInOvenLast(file, canNumber) ==
    LET tracking == LoadOvenTracking(file)
    IN  IF tracking.err # "nil" THEN [found |-> FALSE, rec |-> NoCan, err |-> tracking.err]
        ELSE IF ~OvenContains(tracking.cans, canNumber)
        THEN [found |-> FALSE, rec |-> NoCan, err |-> "nil"]
        ELSE [found |-> TRUE, rec |-> tracking.cans[Len(tracking.cans)], err |-> "nil"]

\* IsCanInOven: the loop returns at the first record of the container, with
\* that record; false with the error when the ledger cannot be loaded.
IsCanInOven(file, canNumber) ==
    LET tracking == LoadOvenTracking(file)
    IN  IF tracking.err # "nil" THEN [found |-> FALSE, rec |-> NoCan, err |-> tracking.err]
        ELSE IF ~OvenContains(tracking.cans, canNumber)
        THEN [found |-> FALSE, rec |-> NoCan, err |-> "nil"]
        ELSE [found |-> TRUE,
              rec   |-> tracking.cans[CHOOSE i \in 1..Len(tracking.cans) :
                           /\ tracking.cans[i].can_number = canNumber
                           /\ \A k \in 1..(i - 1) :
                                 tracking.cans[k].can_number # canNumber],
              err   |-> "nil"]

\* GetOvenCanCount: the number of records, 0 with the error of the load.
GetOvenCanCount(file) ==
    [n |-> Len(LoadOvenTracking(file).cans), err |-> LoadOvenTracking(file).err]

\* strconv.ParseFloat, over the weight texts of the model.
ParseFloat(txt) ==
    CASE txt = "5"   -> [err |-> "nil", v |-> 5]
      [] txt = "10"  -> [err |-> "nil", v |-> 10]
      [] txt = "60"  -> [err |-> "nil", v |-> 60]
      [] txt = "150" -> [err |-> "nil", v |-> 150]
      [] OTHER       -> [err |-> "Syntax", v |-> 0]

----------------------------------------------------------------------------
(* The capture session: src/ui/pull-sample-screen.go                       *)

\* What the technician enters in the capture form (container, container
\* weight, wet weight, suction container): two acceptable entries, the
\* second below the minimum sample weight, and one entry for each rejection.
Form(canNum, canWeight, wetWeight, suctionNum) ==
    [canNum |-> canNum, canWeight |-> canWeight, wetWeight |-> wetWeight,
     suctionNum |-> suctionNum]

CaptureInputs ==
    { Form("c1", "10", "150", "s1"), Form("c2", "10", "60", "s2"),
      Form("", "10", "150", "s1"), Form("c1", "10", "150", ""),
      Form("c1", "x", "150", "s1"), Form("c1", "10", "5", "s1") }

\* What is entered in the edit form: new values, new values with the
\* suction container cleared, and an entry without container number.
EditInputs ==
    { Form("c9", "x", "5", "s9"), Form("c9", "x", "5", ""), Form("", "10", "150", "s1") }

\* What time.Now() reads during a capture.
Clock == {"t1"}

\* The I/O failures of the session so far are at most this many.
MaxFaults == 1

\* An edit appends to the export while it has fewer rows than this.
MaxExportRows == 4

\* The writes one handler makes, and how one of them may fail.  Saving a
\* workbook either writes it or leaves the file as it was.
FaultChoices ==
    {[op |-> "none", kind |-> "ok"]}
    \cup { [op |-> o, kind |-> "failUnchanged"] :
             o \in {"moisture", "suctionInit", "suctionLab", "suctionExport",
                    "backup", "oven", "progress"} }
    \cup { [op |-> o, kind |-> "failTruncated"] : o \in {"backup", "oven", "progress"} }

Out(f, op) == IF f.op = op THEN f.kind ELSE "ok"

ErrOf(outcome) == IF outcome = "ok" THEN "nil" ELSE "IOFailure"

NoLast ==
    [boringNumber |-> "", depth |-> "", canNumber |-> "", canWeight |-> "",
     wetWeight |-> "", suctionCanNo |-> "", sampleIndex |-> -1]

NoPending == Form("", "", "", "")

\* The handle of the lab workbook the two writers of a session share: whether
\* it is open, and how often it has been closed.
NoHandle == [open |-> FALSE, closes |-> 0]

\* excelize.OpenFile of InitMoistureTestFile.
OpenHandle == [open |-> TRUE, closes |-> 0]

\* MoistureTestWriter.Close: closes the shared handle.
MoistureTestWriterClose(h) == [open |-> FALSE, closes |-> h.closes + 1]

\* Mutant: the soil suction writer closes the shared handle as well.
SoilSuctionWriterCloseShared(h) == [open |-> FALSE, closes |-> h.closes + 1]

\* SoilSuctionWriter.Close: closes the export only, never the shared handle.
SoilSuctionWriterClose(h) == h

NoSession ==
    [active |-> FALSE, job |-> "", screen |-> "menu", file |-> <<>>,
     sampleColMap |-> <<>>, sw |-> NoSuctionWriter, currentSampleIndex |-> 0,
     usedMoistureCans |-> {}, usedSuctionCans |-> {}, last |-> NoLast,
     pending |-> NoPending, handle |-> NoHandle]

\* No timing box has been drawn.
NoDisplay == [drawn |-> FALSE, samplesDone |-> 0]

\* The event loop is idle, nothing is queued and no timing box is shown.
InitTimer ==
    /\ handler = "idle"
    /\ updates = 0
    /\ timeDisplay = NoDisplay

\* The morning count screen is not open.
NoMorning == [open |-> FALSE, screen |-> "menu", cansInOven |-> <<>>, calls |-> <<>>]

\* What a handler did: the sample index it ran at, its result (the modal it
\* showed) and the error of each write it made ("skipped": not made).
Log(op, index, result) ==
    [op |-> op, index |-> index, result |-> result, moisture |-> "skipped",
     suction |-> "skipped", backup |-> "skipped", oven |-> "skipped",
     progress |-> "skipped"]

totalSamples == Len(JobSamples(sess.job))

\* Mutant: a session always starts at the first sample.
StartIndexZero(loaded) == 0

\* currentSampleIndex at the start of a session, from LoadProgress.
StartIndex(loaded) == IF loaded.err = "nil" /\ loaded.n > 0 THEN loaded.n ELSE 0

\* Mutant: showing a modal forgets the containers used in the session.
ShowModalForgets(op, screen, result) ==
    /\ sess' = [sess EXCEPT !.screen = screen, !.pending = NoPending,
                            !.usedMoistureCans = {}, !.usedSuctionCans = {}]
    /\ log' = Log(op, sess.currentSampleIndex, result)
    /\ UNCHANGED <<configVars, timerVars, parseVars, morning,
                   ovenVars, progressVars, workDoc, exportDoc,
                   backupFile, faults>>

\* A handler that only shows a modal: nothing stored changes.
ShowModal(op, screen, result) ==
    /\ sess' = [sess EXCEPT !.screen = screen, !.pending = NoPending]
    /\ log' = Log(op, sess.currentSampleIndex, result)
    /\ UNCHANGED <<configVars, timerVars, parseVars, morning,
                   ovenVars, progressVars, workDoc, exportDoc,
                   backupFile, faults>>

\* The failure f is one of a write the handler makes (ops), within the bound.
Inject(f, ops) ==
    /\ f.op \in ops \cup {"none"}
    /\ f.op # "none" => faults < MaxFaults
    /\ faults' = IF f.op = "none" THEN faults ELSE faults + 1

\* NewPullSampleScreen for a job: the two writers on one open workbook, the
\* index to resume at, empty in-session sets and no last sample.
StartSession ==
    \E job \in SessionJobs, f \in FaultChoices :
        LET m      == InitMoistureTestFile(workDoc[job], SourceDoc(job))
            s      == InitSoilSuctionFile(exportDoc[job], m.w.file, Out(f, "suctionInit"))
            loaded == LoadProgress(progressFile[job])
        IN  /\ ~sess.active
            /\ Inject(f, IF exportDoc[job].st = "absent" THEN {"suctionInit"} ELSE {})
            /\ workDoc' = [workDoc EXCEPT ![job] = m.lab]
            /\ exportDoc' = [exportDoc EXCEPT ![job] = s.exp]
            /\ progressRet' = PRet("load", job, loaded.n, loaded.err)
            /\ sess' = [active |-> TRUE, job |-> job, screen |-> "form",
                        file |-> m.w.file, sampleColMap |-> m.w.sampleColMap,
                        sw |-> s.w, currentSampleIndex |-> StartIndex(loaded),
                        usedMoistureCans |-> {}, usedSuctionCans |-> {},
                        last |-> NoLast, pending |-> NoPending, handle |-> OpenHandle]
            /\ log' = [Log("start", StartIndex(loaded), "form") EXCEPT !.suction = s.err]
            /\ timeDisplay' = [drawn |-> TRUE, samplesDone |-> StartIndex(loaded)]
            /\ UNCHANGED <<configVars, handler, updates, parseVars, morning,
                           ovenVars, progressFile, backupFile>>

\* The writes continueSaveSample makes for the current sample.
CaptureOps(key, canNum, suctionNum) ==
    {"backup", "progress"}
    \cup (IF key \in DOMAIN sess.sampleColMap
          THEN {"moisture"} \cup (IF LoadOvenTracking(ovenFile).err = "nil"
                                     /\ ~OvenContains(LoadOvenTracking(ovenFile).cans, canNum)
                                  THEN {"oven"} ELSE {})
          ELSE {})
    \cup (IF sess.sw.open /\ suctionNum # "" /\ key \in DOMAIN sess.sw.sampleRowMap
          THEN {"suctionLab", "suctionExport"} ELSE {})

\* continueSaveSample: the duplicate checks, then the writes of one capture
\* in the order of the code, each error only logged, then the next index.
continueSaveSample(canNum, canWeight, wetWeight, suctionNum, f, t) ==
    LET job    == sess.job
        idx    == sess.currentSampleIndex
        sample == JobSamples(job)[idx + 1]
        key    == SampleKey(sample)
        mw     == [file |-> sess.file, sampleColMap |-> sess.sampleColMap]
        m      == WriteMoistureSample(mw, workDoc[job].sheets, key, canNum, canWeight,
                                      wetWeight, Out(f, "moisture"))
        s      == IF sess.sw.open /\ suctionNum # ""
                  THEN WriteSoilSuctionSample(sess.sw, m.file, m.disk, exportDoc[job], key,
                                              suctionNum, t, Out(f, "suctionLab"),
                                              Out(f, "suctionExport"))
                  ELSE [err |-> "skipped", file |-> m.file, disk |-> m.disk,
                        w |-> sess.sw, exp |-> exportDoc[job]]
        found  == GetSampleMapping(mw, key)
    IN  IF CheckDuplicateCans /\ canNum \in sess.usedMoistureCans
        THEN ShowModal("capture", "error", "DuplicateUse")
        ELSE IF CheckDuplicateCans /\ IsCanInOven(ovenFile, canNum).found
        THEN ShowModal("capture", "error", "AlreadyOccupied")
        ELSE IF CheckDuplicateCans /\ HasSuction(sample) /\ suctionNum \in sess.usedSuctionCans
        THEN ShowModal("capture", "error", "DuplicateSuctionUse")
        ELSE /\ Inject(f, CaptureOps(key, canNum, suctionNum))
             /\ workDoc' = [workDoc EXCEPT ![job] = LabOk(s.disk)]
             /\ exportDoc' = [exportDoc EXCEPT ![job] = s.exp]
             /\ backupFile' = [backupFile EXCEPT ![job] =
                                  SaveSampleBackup(@, job, key, canNum, canWeight, wetWeight,
                                                   suctionNum, t, Out(f, "backup"))]
             /\ IF found
                THEN AddCanToOven(canNum,
                                  [job |-> job, boring |-> key[1], depth |-> key[2],
                                   sheet |-> sess.sampleColMap[key].sheet,
                                   column |-> sess.sampleColMap[key].column, time |-> t],
                                  Out(f, "oven"))
                ELSE UNCHANGED ovenVars
             /\ progressFile' = [progressFile EXCEPT ![job] =
                                    SaveProgress(@, job, idx + 1, Out(f, "progress"))]
             /\ progressRet' = PRet("save", job, idx + 1, ErrOf(Out(f, "progress")))
             /\ sess' = [sess EXCEPT
                           !.file = s.file,
                           !.sw = s.w,
                           !.usedMoistureCans = IF CheckDuplicateCans THEN @ \cup {canNum} ELSE @,
                           !.usedSuctionCans = IF CheckDuplicateCans /\ suctionNum # ""
                                               THEN @ \cup {suctionNum} ELSE @,
                           !.last = [boringNumber |-> key[1], depth |-> key[2],
                                     canNumber |-> canNum, canWeight |-> canWeight,
                                     wetWeight |-> wetWeight, suctionCanNo |-> suctionNum,
                                     sampleIndex |-> idx],
                           !.currentSampleIndex = idx + 1,
                           !.screen = IF idx + 1 >= totalSamples THEN "complete" ELSE "form",
                           !.pending = NoPending]
             /\ log' = [op |-> "capture", index |-> idx, result |-> "saved",
                        moisture |-> m.err, suction |-> s.err,
                        backup |-> SaveSampleBackupErr(backupFile[job], Out(f, "backup")),
                        oven |-> IF found THEN ovenRet'.err ELSE "skipped",
                        progress |-> ErrOf(Out(f, "progress"))]
             /\ UNCHANGED <<configVars, timerVars, parseVars, morning>>

\* saveSample: the Save Sample button of the capture form.
saveSample ==
    \E in \in CaptureInputs :
        /\ sess.active /\ sess.screen = "form"
        /\ IF sess.currentSampleIndex >= totalSamples
           THEN ShowModal("save", "form", "AllDone")
           ELSE LET sample     == JobSamples(sess.job)[sess.currentSampleIndex + 1]
                    suctionNum == IF HasSuction(sample) THEN in.suctionNum ELSE ""
                    canW       == ParseFloat(in.canWeight)
                    wetW       == ParseFloat(in.wetWeight)
                IN  IF in.canNum = "" \/ in.canWeight = "" \/ in.wetWeight = ""
                    THEN ShowModal("save", "error", "Required")
                    ELSE IF HasSuction(sample) /\ suctionNum = ""
                    THEN ShowModal("save", "error", "SuctionRequired")
                    ELSE IF canW.err # "nil" \/ wetW.err # "nil"
                    THEN ShowModal("save", "error", "NotANumber")
                    ELSE IF wetW.v <= canW.v
                    THEN ShowModal("save", "error", "WetNotAboveCan")
                    ELSE IF wetW.v - canW.v < 100
                    THEN /\ sess' = [sess EXCEPT !.screen = "warn",
                                        !.pending = Form(in.canNum, in.canWeight,
                                                         in.wetWeight, suctionNum)]
                         /\ log' = Log("save", sess.currentSampleIndex, "BelowMinimum")
                         /\ UNCHANGED <<configVars, timerVars, parseVars, morning,
                                        ovenVars, progressVars, workDoc,
                                        exportDoc, backupFile, faults>>
                    ELSE \E f \in FaultChoices, t \in Clock :
                            continueSaveSample(in.canNum, in.canWeight, in.wetWeight,
                                               suctionNum, f, t)

\* "Override & Save" of the minimum-weight warning.
OverrideAndSave ==
    \E f \in FaultChoices, t \in Clock :
        /\ sess.active /\ sess.screen = "warn"
        /\ continueSaveSample(sess.pending.canNum, sess.pending.canWeight,
                              sess.pending.wetWeight, sess.pending.suctionNum, f, t)

\* "Cancel" of the warning, "OK" of an error or success modal, "Cancel" of
\* the edit form, "No, Continue" of the stop confirmation: back to the form.
BackToForm ==
    /\ sess.active /\ sess.screen \in {"warn", "error", "edit", "confirmStop"}
    /\ ShowModal("back", "form", "form")

\* The '-' key on the capture form: the edit form for the last sample of
\* this session, or a notice when there is none.
PressMinus ==
    /\ sess.active /\ sess.screen = "form"
    /\ IF sess.last.sampleIndex >= 0
       THEN ShowModal("minus", "edit", "edit")
       ELSE ShowModal("minus", "error", "NoSampleYet")

\* Mutant: any record of the log counts as found.
SampleFoundAny(samples, boring, depth) == Len(samples) > 0

\* Whether the loop of the edit handler finds a record of the key.
SampleFound(samples, boring, depth) ==
    \E i \in 1..Len(samples) :
        samples[i].boring_number = boring /\ samples[i].depth = depth

\* The loop of the edit handler: from the first record on, the first record
\* of the key gets the new fields and the loop ends.
UpdateSample(samples, boring, depth, canNo, canWeight, wetWeight, suctionCanNo) ==
    [i \in 1..Len(samples) |->
        IF /\ samples[i].boring_number = boring /\ samples[i].depth = depth
           /\ \A k \in 1..(i - 1) :
                 ~(samples[k].boring_number = boring /\ samples[k].depth = depth)
        THEN [samples[i] EXCEPT !.can_number = canNo, !.can_weight = canWeight,
                                !.wet_weight = wetWeight, !.suction_can_no = suctionCanNo]
        ELSE samples[i]]

ExportRows(exp) == IF Len(exp.pages) = 0 THEN 0 ELSE Len(exp.pages[Len(exp.pages)])

\* The writes the edit handler makes.
EditOps(key, newSuctionCanNo) ==
    {"backup"}
    \cup (IF key \in DOMAIN sess.sampleColMap THEN {"moisture"} ELSE {})
    \cup (IF newSuctionCanNo # "" /\ key \in DOMAIN sess.sampleColMap
          THEN (IF exportDoc[sess.job].st = "absent" THEN {"suctionInit"} ELSE {})
               \cup (IF key \in DOMAIN BuildSampleRowMap(sess.file)
                     THEN {"suctionLab", "suctionExport"} ELSE {})
          ELSE {})

\* What the edit handler leaves: the modal it ends on, the stored files, the
\* open workbook, the last sample and the errors it logged.
EditResult(result, backup, file, disk, exp, last, lg, h) ==
    /\ backupFile' = [backupFile EXCEPT ![sess.job] = backup]
    /\ workDoc' = [workDoc EXCEPT ![sess.job] = LabOk(disk)]
    /\ exportDoc' = [exportDoc EXCEPT ![sess.job] = exp]
    /\ sess' = [sess EXCEPT !.screen = "error", !.file = file, !.last = last,
                            !.handle = h]
    /\ log' = [lg EXCEPT !.result = result]

\* "Save Changes" of the edit form for the last sample.
EditSave ==
    \E in \in EditInputs, f \in FaultChoices, t \in Clock :
        LET job      == sess.job
            newCanNo == in.canNum
            w        == [can |-> in.canWeight, wet |-> in.wetWeight]
            suction  == in.suctionNum
            last     == sess.last
            key      == <<last.boringNumber, last.depth>>
            newSuctionCanNo == IF last.suctionCanNo # "" THEN suction ELSE ""
            loaded   == LoadBackupData(backupFile[job])
            newData  == [loaded.data EXCEPT !.samples =
                            UpdateSample(@, last.boringNumber, last.depth, newCanNo,
                                         w.can, w.wet, newSuctionCanNo)]
            saved    == SaveBackupDataToFile(backupFile[job], newData, Out(f, "backup"))
            mw       == [file |-> sess.file, sampleColMap |-> sess.sampleColMap]
            m        == WriteMoistureSample(mw, workDoc[job].sheets, key, newCanNo, w.can,
                                            w.wet, Out(f, "moisture"))
            si       == InitSoilSuctionFile(exportDoc[job], m.file, Out(f, "suctionInit"))
            ws       == WriteSoilSuctionSample(si.w, m.file, m.disk, si.exp, key,
                                               newSuctionCanNo, t, Out(f, "suctionLab"),
                                               Out(f, "suctionExport"))
            lg       == Log("edit", sess.currentSampleIndex, "updated")
            newLast  == [last EXCEPT !.canNumber = newCanNo, !.canWeight = w.can,
                                     !.wetWeight = w.wet, !.suctionCanNo = newSuctionCanNo]
        IN  /\ sess.active /\ sess.screen = "edit"
            /\ newSuctionCanNo # "" => ExportRows(exportDoc[job]) < MaxExportRows
            /\ IF newCanNo = "" \/ w.can = "" \/ w.wet = ""
               THEN ShowModal("edit", "error", "Required")
               ELSE IF loaded.err # "nil"
               THEN ShowModal("edit", "error", "LoadFailed")
               ELSE IF ~SampleFound(loaded.data.samples, last.boringNumber, last.depth)
               THEN ShowModal("edit", "error", "NotFound")
               ELSE /\ Inject(f, EditOps(key, newSuctionCanNo))
                    /\ UNCHANGED <<configVars, timerVars, parseVars, morning,
                                   ovenVars, progressVars>>
                    /\ IF Out(f, "backup") # "ok"
                       THEN EditResult("SaveFailed", saved, sess.file, workDoc[job].sheets,
                                       exportDoc[job], last,
                                       [lg EXCEPT !.backup = "IOFailure"], sess.handle)
                       ELSE IF m.err # "nil"
                       THEN EditResult("MoistureFailed", saved, m.file, m.disk,
                                       exportDoc[job], last,
                                       [lg EXCEPT !.backup = "nil", !.moisture = m.err],
                                       sess.handle)
                       ELSE IF newSuctionCanNo = ""
                       THEN EditResult("updated", saved, m.file, m.disk, exportDoc[job],
                                       newLast,
                                       [lg EXCEPT !.backup = "nil", !.moisture = "nil"],
                                       sess.handle)
                       ELSE IF si.err # "nil"
                       THEN EditResult("updated", saved, m.file, m.disk, si.exp, newLast,
                                       [lg EXCEPT !.backup = "nil", !.moisture = "nil",
                                                  !.suction = si.err], sess.handle)
                       ELSE EditResult("updated", saved, ws.file, ws.disk, ws.exp, newLast,
                                       [lg EXCEPT !.backup = "nil", !.moisture = "nil",
                                                  !.suction = ws.err],
                                       SoilSuctionWriterClose(sess.handle))

\* The '+' key on the capture form: the stop confirmation while samples
\* remain, the completion screen otherwise.
PressPlus ==
    /\ sess.active /\ sess.screen = "form"
    /\ IF sess.currentSampleIndex < totalSamples
       THEN ShowModal("plus", "confirmStop", "confirmStop")
       ELSE ShowModal("plus", "complete", "complete")

\* The session ends: the moisture writer closes the shared handle, what was
\* not saved is gone.
CloseSession(op) ==
    /\ sess' = [NoSession EXCEPT !.handle = MoistureTestWriterClose(sess.handle)]
    /\ log' = Log(op, sess.currentSampleIndex, "menu")
    /\ timeDisplay' = NoDisplay
    /\ UNCHANGED <<configVars, handler, updates, parseVars, morning, ovenVars,
                   progressVars, workDoc, exportDoc, backupFile, faults>>

\* "Yes, Stop" of the stop confirmation.
ConfirmStop ==
    /\ sess.active /\ sess.screen = "confirmStop"
    /\ CloseSession("stop")

\* "Finish Job" of the completion screen.
FinishJob ==
    /\ sess.active /\ sess.screen = "complete"
    /\ CloseSession("finish")

----------------------------------------------------------------------------
(* The timing box of the capture session and the event loop that runs the  *)
(* handlers: src/ui/pull-sample-screen.go                                  *)

\* The refreshes that can wait in the queue of the application.
MaxQueued == 2

\* Mutant: the timer goroutine calls updateTimeDisplay itself, whatever the
\* event loop is running.
UpdateRunsAnyTime == TRUE

\* app.QueueUpdateDraw: a queued function runs on the event loop, between
\* two events.
UpdateRuns == handler = "idle"

\* A tick of the timer goroutine of the session: it queues a refresh.
Tick ==
    /\ sess.active
    /\ updates < MaxQueued
    /\ updates' = updates + 1
    /\ UNCHANGED <<configVars, parseVars, morning, ovenVars, progressVars,
                   sessionVars, handler, timeDisplay>>

\* updateTimeDisplay, run from the queue: the text of the timing box is set
\* from currentSampleIndex and the clock.
updateTimeDisplay ==
    /\ sess.active
    /\ updates > 0
    /\ UpdateRuns
    /\ updates' = updates - 1
    /\ timeDisplay' = [drawn |-> TRUE, samplesDone |-> sess.currentSampleIndex]
    /\ UNCHANGED <<configVars, parseVars, morning, ovenVars, progressVars,
                   sessionVars, handler>>

\* The event loop takes a key event and enters the input capture of the form.
DispatchKey ==
    /\ sess.active
    /\ handler = "idle"
    /\ handler' = "key"
    /\ UNCHANGED <<configVars, parseVars, morning, ovenVars, progressVars,
                   sessionVars, updates, timeDisplay>>

\* The handlers of the form, run by the event loop for the key it took.
HandleSave == handler = "key" /\ saveSample

HandleOverride == handler = "key" /\ OverrideAndSave

HandleBack == handler = "key" /\ BackToForm

\* The handler returns to the event loop.
ReturnToLoop ==
    /\ handler = "key"
    /\ handler' = "idle"
    /\ UNCHANGED <<configVars, parseVars, morning, ovenVars, progressVars,
                   sessionVars, updates, timeDisplay>>

----------------------------------------------------------------------------
(* The morning count screen: src/ui/pull-job-list-screen.go, and the dry   *)
(* weight write: src/pkg/file-management.go                                *)

\* fmt.Sscanf(txt, "%f", &v) on a variable that is 0: over the weight texts
\* of the model, the number read, and 0 when the text is not a number.
Sscanf(txt) == IF ParseFloat(txt).err = "nil" THEN ParseFloat(txt).v ELSE 0

\* Mutant: the quotient is taken whatever the dry soil weight.
MoistureContentUnguarded(wtOfWater, dryWtOfSoil) ==
    [num |-> wtOfWater * 100, den |-> dryWtOfSoil]

\* The moisture content written in row 17: the quotient 100 * water / soil
\* as numerator and denominator, and 0 when there is no dry soil.
MoistureContent(wtOfWater, dryWtOfSoil) ==
    IF dryWtOfSoil > 0 THEN [num |-> wtOfWater * 100, den |-> dryWtOfSoil]
    ELSE [num |-> 0, den |-> 1]

\* Mutant: the errors of OpenFile and Save are not returned.
WriteDryWeightSwallowsError(docs, can, dryWeight, outcome) ==
    LET lab == docs[can.job_number] IN
    IF lab.st # "ok" THEN [err |-> "nil", docs |-> docs]
    ELSE LET s    == SheetIndex(lab.sheets, can.moisture_sheet)
             c    == ColumnElement(can.moisture_column)
             W    == Sscanf(lab.sheets[s].cols[c].r12)
             C    == Sscanf(lab.sheets[s].cols[c].r15)
             D    == Sscanf(dryWeight)
             file == IF s = 0 THEN lab.sheets
                     ELSE [lab.sheets EXCEPT
                              ![s].cols[c].r13 = D,
                              ![s].cols[c].r14 = W - D,
                              ![s].cols[c].r16 = D - C,
                              ![s].cols[c].r17 = MoistureContent(W - D, D - C),
                              ![s].nrows = IF @ < 17 THEN 17 ELSE @]
         IN  [err  |-> "nil",
              docs |-> [docs EXCEPT ![can.job_number] =
                           LabOk(SaveDoc(lab.sheets, file, outcome))]]

\* Mutant: the dry soil weight is written one row too high, in row 15.
WriteDryWeightRow15(docs, can, dryWeight, outcome) ==
    LET lab == docs[can.job_number] IN
    IF lab.st # "ok" THEN [err |-> "OpenFailed", docs |-> docs]
    ELSE LET s    == SheetIndex(lab.sheets, can.moisture_sheet)
             c    == ColumnElement(can.moisture_column)
             W    == Sscanf(lab.sheets[s].cols[c].r12)
             C    == Sscanf(lab.sheets[s].cols[c].r15)
             D    == Sscanf(dryWeight)
             file == IF s = 0 THEN lab.sheets
                     ELSE [lab.sheets EXCEPT
                              ![s].cols[c].r13 = D,
                              ![s].cols[c].r14 = W - D,
                              ![s].cols[c].r15 = D - C,
                              ![s].cols[c].r17 = MoistureContent(W - D, D - C),
                              ![s].nrows = IF @ < 17 THEN 17 ELSE @]
         IN  [err  |-> IF outcome = "ok" THEN "nil" ELSE "IOFailure",
              docs |-> [docs EXCEPT ![can.job_number] =
                           LabOk(SaveDoc(lab.sheets, file, outcome))]]

\* WriteDryWeightToMoistureSheet for a ledger record: the error returned and
\* the working documents after the call.  The four SetCellValue calls fail,
\* unnoticed, when the working document has no such sheet.
WriteDryWeightToMoistureSheet(docs, can, dryWeight, outcome) ==
    LET lab == docs[can.job_number] IN
    IF lab.st # "ok" THEN [err |-> "OpenFailed", docs |-> docs]
    ELSE LET s    == SheetIndex(lab.sheets, can.moisture_sheet)
             c    == ColumnElement(can.moisture_column)
             W    == Sscanf(lab.sheets[s].cols[c].r12)
             C    == Sscanf(lab.sheets[s].cols[c].r15)
             D    == Sscanf(dryWeight)
             file == IF s = 0 THEN lab.sheets
                     ELSE [lab.sheets EXCEPT
                              ![s].cols[c].r13 = D,
                              ![s].cols[c].r14 = W - D,
                              ![s].cols[c].r16 = D - C,
                              ![s].cols[c].r17 = MoistureContent(W - D, D - C),
                              ![s].nrows = IF @ < 17 THEN 17 ELSE @]
         IN  [err  |-> IF outcome = "ok" THEN "nil" ELSE "IOFailure",
              docs |-> [docs EXCEPT ![can.job_number] =
                           LabOk(SaveDoc(lab.sheets, file, outcome))]]

\* What the technician enters in the dry weight form (container, dry weight).
DryInputs ==
    { <<"c1", "60">>, <<"c1", "10">>, <<"c1", "150">>, <<"c1", "5">>, <<"c2", "5">>,
      <<"c3", "60">>, <<"", "60">>, <<"c1", "">> }

\* A call a handler of the screen made: the function, the container, the
\* ledger record it was given or returned, and its error.
Call(fn, canNum, rec, err) == [fn |-> fn, can |-> canNum, rec |-> rec, err |-> err]

\* NewMorningCountScreen: the list of the screen is read from the ledger
\* once, and is empty when the ledger cannot be read.
OpenMorningCount ==
    /\ ~morning.open /\ ~sess.active
    /\ morning' = [open |-> TRUE, screen |-> "form",
                   cansInOven |-> IF LoadOvenTracking(ovenFile).err = "nil"
                                  THEN LoadOvenTracking(ovenFile).cans ELSE <<>>,
                   calls |-> <<>>]
    /\ log' = Log("morning", 0, "form")
    /\ UNCHANGED <<configVars, timerVars, parseVars, ovenVars, progressVars, workDoc, exportDoc,
                   backupFile, sess, faults>>

\* saveDryWeight: the validation, then the dry weight write for the record
\* of the list, then the removal from the ledger (its error only logged),
\* then the list without the container.
saveDryWeight ==
    \E in \in DryInputs, oWrite \in IOOutcomes, oRemove \in IOOutcomes :
        LET canNum    == in[1]
            dryWeight == in[2]
            found     == { i \in 1..Len(morning.cansInOven) :
                             morning.cansInOven[i].can_number = canNum }
            foundCan  == morning.cansInOven[CHOOSE i \in found : \A k \in found : i <= k]
            w         == WriteDryWeightToMoistureSheet(workDoc, foundCan, dryWeight, oWrite)
        IN  /\ morning.open /\ morning.screen = "form"
            /\ IF canNum = "" \/ dryWeight = "" \/ found = {}
               THEN /\ morning' = [morning EXCEPT !.screen = "error", !.calls = <<>>]
                    /\ log' = Log("dry", 0, IF canNum = "" THEN "CanRequired"
                                            ELSE IF dryWeight = "" THEN "DryWeightRequired"
                                            ELSE "NotInOven")
                    /\ oWrite = "ok" /\ oRemove = "ok"
                    /\ UNCHANGED <<workDoc, ovenVars>>
               ELSE IF w.err # "nil"
               THEN /\ morning' = [morning EXCEPT
                                      !.screen = "error",
                                      !.calls = <<Call("WriteDryWeightToMoistureSheet",
                                                       canNum, foundCan, w.err)>>]
                    /\ log' = [Log("dry", 0, "SaveFailed") EXCEPT !.moisture = w.err]
                    /\ workDoc' = w.docs
                    /\ oRemove = "ok"
                    /\ UNCHANGED ovenVars
               ELSE /\ RemoveCanFromOven(canNum, oRemove)
                    /\ morning' = [morning EXCEPT
                                      !.cansInOven = RemoveFilter(@, canNum),
                                      !.calls = <<Call("WriteDryWeightToMoistureSheet",
                                                       canNum, foundCan, w.err),
                                                  Call("RemoveCanFromOven", canNum,
                                                       ovenRet'.rec, ovenRet'.err)>>]
                    /\ log' = [Log("dry", 0, "saved") EXCEPT
                                  !.moisture = w.err, !.oven = ovenRet'.err]
                    /\ workDoc' = w.docs
            /\ UNCHANGED <<configVars, timerVars, parseVars, progressVars, exportDoc, backupFile,
                           sess, faults>>

\* "OK" of the error modal of the screen.
DismissDryError ==
    /\ morning.open /\ morning.screen = "error"
    /\ morning' = [morning EXCEPT !.screen = "form"]
    /\ log' = Log("dismiss", 0, "form")
    /\ UNCHANGED <<configVars, timerVars, parseVars, ovenVars, progressVars, workDoc, exportDoc,
                   backupFile, sess, faults>>

\* "+": back to the menu.
CloseMorningCount ==
    /\ morning.open /\ morning.screen = "form"
    /\ morning' = NoMorning
    /\ log' = Log("back", 0, "menu")
    /\ UNCHANGED <<configVars, timerVars, parseVars, ovenVars, progressVars, workDoc, exportDoc,
                   backupFile, sess, faults>>

----------------------------------------------------------------------------

InitConfig ==
    /\ CheckDuplicateCans \in BOOLEAN
    /\ loopVarPerIteration \in BOOLEAN

InitLedger ==
    /\ ovenFile \in {OvenAbsent, OvenOk(<<>>)}
    /\ ovenRet = Ret("none", "", "", "nil", NoCan)

InitProgress ==
    /\ progressFile = [j \in Jobs |-> ProgressAbsent]
    /\ progressRet = PRet("none", "", 0, "nil")

\* No job has been opened: no working copy, export or backup log.
InitSession ==
    /\ workDoc = [j \in Jobs |-> LabAbsent]
    /\ exportDoc = [j \in Jobs |-> ExportAbsent]
    /\ backupFile = [j \in Jobs |-> BackupAbsent]
    /\ sess = NoSession
    /\ log = Log("none", 0, "menu")
    /\ faults = 0
    /\ labRows = MainFormRows
    /\ jobData = NoJobData
    /\ morning = NoMorning
    /\ InitTimer

InitOven == InitConfig /\ InitLedger /\ InitProgress /\ InitSession

NextOven == AddCanToOvenCall \/ RemoveCanFromOvenCall

SpecOven == InitOven /\ [][NextOven]_vars

\* Direct calls of the three queries of the ledger.
IsCanInOvenCall ==
    \E c \in Cans :
        /\ ovenRet' = [Ret("isIn", c, "", IsCanInOven(ovenFile, c).err,
                           IsCanInOven(ovenFile, c).rec)
                          EXCEPT !.found = IsCanInOven(ovenFile, c).found]
        /\ UNCHANGED <<ovenFile, configVars, timerVars, parseVars, morning,
                       progressVars, sessionVars>>

GetCansInOvenCall ==
    /\ ovenRet' = [Ret("list", "", "", GetCansInOven(ovenFile).err, NoCan)
                      EXCEPT !.cans = GetCansInOven(ovenFile).cans]
    /\ UNCHANGED <<ovenFile, configVars, timerVars, parseVars, morning,
                   progressVars, sessionVars>>

GetOvenCanCountCall ==
    /\ ovenRet' = [Ret("count", "", "", GetOvenCanCount(ovenFile).err, NoCan)
                      EXCEPT !.count = GetOvenCanCount(ovenFile).n]
    /\ UNCHANGED <<ovenFile, configVars, timerVars, parseVars, morning,
                   progressVars, sessionVars>>

\* A load of the ledger followed by a save of what was loaded, unmodified.
LoadSaveCycle ==
    \E outcome \in IOOutcomes :
        LET tracking == LoadOvenTracking(ovenFile)
        IN  /\ IF tracking.err # "nil"
               THEN /\ ovenRet' = Ret("cycle", "", "", tracking.err, NoCan)
                    /\ UNCHANGED ovenFile
               ELSE /\ ovenFile' = SaveOvenTracking(ovenFile, tracking.cans, outcome)
                    /\ ovenRet' = Ret("cycle", "", "", ErrOf(outcome), NoCan)
            /\ UNCHANGED <<configVars, timerVars, parseVars, morning,
                           progressVars, sessionVars>>

NextOvenQueries ==
    \/ LoadSaveCycle
    \/ AddCanToOvenCall
    \/ RemoveCanFromOvenCall
    \/ IsCanInOvenCall
    \/ GetCansInOvenCall
    \/ GetOvenCanCountCall

\* The ledger outlives the program: it may hold a record of an earlier run.
StoredCan ==
    [can_number |-> "c3", job_number |-> "J2", boring_number |-> "B-1",
     depth |-> "2-4", time_in |-> "t0", moisture_sheet |-> "Moisture",
     moisture_column |-> <<"C">>]

InitOvenQueries ==
    /\ InitConfig /\ InitProgress /\ InitSession
    /\ ovenFile \in {OvenAbsent, OvenOk(<<>>), OvenOk(<<StoredCan>>)}
    /\ ovenRet = Ret("none", "", "", "nil", NoCan)

SpecOvenQueries == InitOvenQueries /\ [][NextOvenQueries]_vars

\* Direct calls of the progress operations, from no stored progress.
InitProgressCalls ==
    /\ CheckDuplicateCans = TRUE
    /\ loopVarPerIteration = TRUE
    /\ ovenFile = OvenAbsent
    /\ ovenRet = Ret("none", "", "", "nil", NoCan)
    /\ InitProgress
    /\ InitSession

NextProgress == SaveProgressCall \/ LoadProgressCall

SpecProgress == InitProgressCalls /\ [][NextProgress]_vars

\* A backup log grows by direct calls while it has fewer records than this.
MaxBackupLen == 3

\* What direct calls of SaveSampleBackup are given besides the job.
BackupInputs ==
    { [key |-> <<"B-1", "0-2">>, form |-> Form("c1", "10", "150", "")],
      [key |-> <<"B-1", "2-4">>, form |-> Form("c2", "10", "60", "s2")],
      [key |-> <<"B-1", "0-2">>, form |-> Form("c2", "12", "160", "s1")] }

\* A direct call of SaveSampleBackup; the log variable records the outcome of
\* the write and the error returned.
SaveSampleBackupCall ==
    \E j \in Jobs, in \in BackupInputs, t \in Clock, o \in IOOutcomes :
        /\ Len(backupFile[j].samples) < MaxBackupLen
        /\ backupFile' = [backupFile EXCEPT ![j] =
                             SaveSampleBackup(@, j, in.key, in.form.canNum,
                                              in.form.canWeight, in.form.wetWeight,
                                              in.form.suctionNum, t, o)]
        /\ log' = [Log("backup", 0, o) EXCEPT
                      !.backup = SaveSampleBackupErr(backupFile[j], o)]
        /\ UNCHANGED <<configVars, timerVars, parseVars, morning,
                       ovenVars, progressVars, workDoc, exportDoc, sess, faults>>

NextBackup == SaveSampleBackupCall

SpecBackup == InitProgressCalls /\ [][NextBackup]_vars

\* Direct calls of WriteSoilSuctionSample stop when the export holds this
\* many records, or when the cursor of the writer has passed as many rows.
MaxExportWrites == 40

RECURSIVE DataRows(_)
\* The number of rows below the header over the pages of an export.
DataRows(pages) ==
    IF Len(pages) = 0 THEN 0
    ELSE DataRows(SubSeq(pages, 1, Len(pages) - 1)) + (Len(pages[Len(pages)]) - 1)

\* The keys and the suction container direct calls of the writer are given:
\* the sample with a soil suction row and the sample without.
SuctionCallKeys == {<<"B-1", "2-4">>, <<"B-2", "0-2">>}

\* A direct call of WriteSoilSuctionSample on the writer of the open session,
\* as continueSaveSample makes it.
WriteSoilSuctionSampleCall ==
    \E key \in SuctionCallKeys, f \in FaultChoices, t \in Clock :
        LET job == sess.job
            s   == WriteSoilSuctionSample(sess.sw, sess.file, workDoc[job].sheets,
                                          exportDoc[job], key, "s1", t,
                                          Out(f, "suctionLab"), Out(f, "suctionExport"))
        IN  /\ sess.active /\ sess.sw.open
            /\ DataRows(exportDoc[job].pages) < MaxExportWrites
            /\ (sess.sw.separateSheetNum - 1) * (MaxSheetRows - 1)
                  + (sess.sw.separateNextRow - 2) < MaxExportWrites
            /\ Inject(f, IF key \in DOMAIN sess.sw.sampleRowMap
                         THEN {"suctionLab", "suctionExport"} ELSE {})
            /\ workDoc' = [workDoc EXCEPT ![job] = LabOk(s.disk)]
            /\ exportDoc' = [exportDoc EXCEPT ![job] = s.exp]
            /\ sess' = [sess EXCEPT !.file = s.file, !.sw = s.w]
            /\ log' = [Log("suction", sess.currentSampleIndex, "called") EXCEPT
                          !.suction = s.err]
            /\ UNCHANGED <<configVars, timerVars, parseVars, morning,
                           ovenVars, progressVars, backupFile>>

\* The session is left: both writers are closed.
CloseWritersCall == sess.active /\ CloseSession("stop")

\* One session on a new export, never closed.
NextExportRun == StartSession \/ WriteSoilSuctionSampleCall

SpecExportRun == InitProgressCalls /\ [][NextExportRun]_vars

\* Sessions on one export, closed and reopened at any time.
NextExportReopen == StartSession \/ WriteSoilSuctionSampleCall \/ CloseWritersCall

SpecExportReopen == InitProgressCalls /\ [][NextExportReopen]_vars

\* The header cells (boring row 9, depth row 10) a moisture column of a
\* scanned document may hold: two samples, a label with a trailing blank, a
\* column without a boring label and a column with a blank depth.
IndexCols ==
    { Col("B-1", "0-2"), Col("B-1 ", "0-2"), Col("B-1", "2-4"), Col("", "0-2"),
      Col("B-2", " ") }

\* The names of the second sheet of a scanned document.
IndexSheetNames == {"Moisture2", "Moisture (old)", "Main Form"}

\* The working documents the index is built from: a sheet "Moisture" and a
\* second sheet, two columns (B and C) each.
IndexDocs ==
    { <<Sheet("Moisture", 17, <<a, b>>, <<>>), Sheet(name, 17, <<c, d>>, <<>>)>> :
        a \in IndexCols, b \in IndexCols, c \in IndexCols, d \in IndexCols,
        name \in IndexSheetNames }

\* The keys direct calls of WriteMoistureSample are given.
IndexKeys == {<<"B-1", "0-2">>, <<"B-1", "2-4">>, <<"B-2", "">>}

\* The working copy of job J1 exists and holds any of the documents.
InitIndex ==
    /\ CheckDuplicateCans = TRUE
    /\ loopVarPerIteration = TRUE
    /\ ovenFile = OvenAbsent
    /\ ovenRet = Ret("none", "", "", "nil", NoCan)
    /\ InitProgress
    /\ \E d \in IndexDocs :
          workDoc = [j \in Jobs |-> IF j = "J1" THEN LabOk(d) ELSE LabAbsent]
    /\ exportDoc = [j \in Jobs |-> ExportAbsent]
    /\ backupFile = [j \in Jobs |-> BackupAbsent]
    /\ sess = NoSession
    /\ log = Log("none", 0, "menu")
    /\ faults = 0
    /\ labRows = MainFormRows
    /\ jobData = NoJobData
    /\ morning = NoMorning
    /\ InitTimer

\* A direct call of InitMoistureTestFile: the writer it returns is kept as
\* the open workbook and the index of the session record.
InitMoistureTestFileCall ==
    \E job \in SessionJobs :
        LET m == InitMoistureTestFile(workDoc[job], SourceDoc(job))
        IN  /\ workDoc' = [workDoc EXCEPT ![job] = m.lab]
            /\ sess' = [NoSession EXCEPT !.job = job, !.file = m.w.file,
                                         !.sampleColMap = m.w.sampleColMap]
            /\ log' = Log("scan", 0, "opened")
            /\ UNCHANGED <<configVars, timerVars, parseVars, morning,
                           ovenVars, progressVars, exportDoc, backupFile,
                           faults>>

\* A direct call of WriteMoistureSample on the writer of the last scan.
WriteMoistureSampleCall ==
    \E key \in IndexKeys, o \in IOOutcomes :
        LET job == sess.job
            mw  == [file |-> sess.file, sampleColMap |-> sess.sampleColMap]
            m   == WriteMoistureSample(mw, workDoc[job].sheets, key, "c1", "10", "150", o)
        IN  /\ sess.job \in SessionJobs
            /\ workDoc' = [workDoc EXCEPT ![job] = LabOk(m.disk)]
            /\ sess' = [sess EXCEPT !.file = m.file]
            /\ log' = [Log("write", 0, o) EXCEPT !.moisture = m.err]
            /\ UNCHANGED <<configVars, timerVars, parseVars, morning,
                           ovenVars, progressVars, exportDoc, backupFile,
                           faults>>

NextIndex == InitMoistureTestFileCall \/ WriteMoistureSampleCall

SpecIndex == InitIndex /\ [][NextIndex]_vars

\* A second moisture sheet and the soil suction sheets of a scanned document,
\* by what they hold: sample B-1 0-2, sample B-1 2-4, too few rows for a
\* sample ("short"), or sample B-1 0-2 on a sheet that cannot be read.
FamilyKinds == {"first", "second", "short", "unreadable"}

MoistureOf(name, kind) ==
    CASE kind = "first"  -> Sheet(name, 17, <<Col("B-1", "0-2")>>, <<>>)
      [] kind = "second" -> Sheet(name, 17, <<Col("B-1", "2-4")>>, <<>>)
      [] kind = "short"  -> Sheet(name, 9, <<Col("B-1", "")>>, <<>>)
      [] OTHER           -> Unreadable(Sheet(name, 17, <<Col("B-1", "0-2")>>, <<>>))

SuctionOf(name, kind) ==
    CASE kind = "first"  -> Sheet(name, 10, <<>>, <<Row("B-1", "0-2")>>)
      [] kind = "second" -> Sheet(name, 10, <<>>, <<Row("B-1", "2-4")>>)
      [] kind = "short"  -> Sheet(name, 9, <<>>, <<>>)
      [] OTHER           -> Unreadable(Sheet(name, 10, <<>>, <<Row("B-1", "0-2")>>))

\* The working documents of the family scans: the main form, then no
\* moisture sheet or "Moisture" and a second sheet of either name, then no
\* soil suction sheet, the decorated one alone, or "Soil Suction",
\* "Soil Suction2" and the decorated one.
FamilyDocs ==
    LET moisture == {<<>>} \cup
                    { <<MoistureOf("Moisture", a), MoistureOf(name, b)>> :
                        a \in FamilyKinds, b \in {"first", "short"},
                        name \in {"Moisture2", "Moisture (old)"} }
        suction  == {<<>>, <<SuctionOf("Soil Suction (old)", "first")>>} \cup
                    { <<SuctionOf("Soil Suction", a), SuctionOf("Soil Suction2", b),
                        SuctionOf("Soil Suction (old)", "first")>> :
                        a \in FamilyKinds, b \in {"first", "short"} }
    IN  { <<Sheet("Main Form", 12, <<>>, <<>>)>> \o m \o x : m \in moisture, x \in suction }

\* Direct calls of the soil suction writer stop when the export holds this
\* many records.
MaxFamilyWrites == 1

\* The working copy of job J1 exists and holds any of the documents.
InitFamilies ==
    /\ CheckDuplicateCans = TRUE
    /\ loopVarPerIteration = TRUE
    /\ ovenFile = OvenAbsent
    /\ ovenRet = Ret("none", "", "", "nil", NoCan)
    /\ InitProgress
    /\ \E d \in FamilyDocs :
          workDoc = [j \in Jobs |-> IF j = "J1" THEN LabOk(d) ELSE LabAbsent]
    /\ exportDoc = [j \in Jobs |-> ExportAbsent]
    /\ backupFile = [j \in Jobs |-> BackupAbsent]
    /\ sess = NoSession
    /\ log = Log("none", 0, "menu")
    /\ faults = 0
    /\ labRows = MainFormRows
    /\ jobData = NoJobData
    /\ morning = NoMorning
    /\ InitTimer

\* The two writers are initialised as NewPullSampleScreen does it: the
\* moisture writer first, the soil suction writer on its open workbook. The
\* log records the outcome of the creation of the export and both errors.
InitWritersCall ==
    \E job \in SessionJobs, o \in {"ok", "failUnchanged"} :
        LET m == InitMoistureTestFile(workDoc[job], SourceDoc(job))
            x == InitSoilSuctionFile(exportDoc[job], m.w.file, o)
        IN  /\ workDoc' = [workDoc EXCEPT ![job] = m.lab]
            /\ exportDoc' = [exportDoc EXCEPT ![job] = x.exp]
            /\ sess' = [NoSession EXCEPT !.job = job, !.file = m.w.file,
                                         !.sampleColMap = m.w.sampleColMap,
                                         !.sw = x.w]
            /\ log' = [Log("scan", 0, o) EXCEPT !.moisture = "nil", !.suction = x.err]
            /\ UNCHANGED <<configVars, timerVars, parseVars, morning,
                           ovenVars, progressVars, backupFile, faults>>

\* A direct call of WriteSoilSuctionSample on the writer of the last scan.
SuctionWriteCall ==
    \E key \in IndexKeys, t \in Clock, o \in {"ok", "failUnchanged"} :
        LET job == sess.job
            x   == WriteSoilSuctionSample(sess.sw, sess.file, workDoc[job].sheets,
                                          exportDoc[job], key, "s1", t, o, "ok")
        IN  /\ sess.job \in SessionJobs /\ sess.sw.open
            /\ DataRows(exportDoc[job].pages) < MaxFamilyWrites
            /\ workDoc' = [workDoc EXCEPT ![job] = LabOk(x.disk)]
            /\ exportDoc' = [exportDoc EXCEPT ![job] = x.exp]
            /\ sess' = [sess EXCEPT !.file = x.file, !.sw = x.w]
            /\ log' = [Log("suctionWrite", 0, o) EXCEPT !.suction = x.err]
            /\ UNCHANGED <<configVars, timerVars, parseVars, morning,
                           ovenVars, progressVars, backupFile, faults>>

NextFamilies == InitWritersCall \/ WriteMoistureSampleCall \/ SuctionWriteCall

SpecFamilies == InitFamilies /\ [][NextFamilies]_vars

\* A lab file has at most this many rows below the header.
MaxLabRows == 3

\* The rows a parsed lab file may hold: a boring with a depth, a boring
\* without a depth, a continuation row, a second boring with a depth and a
\* row of notes.
LabRowKinds ==
    { LabRow("B-1", "0-2", {"Moisture Content"}), LabRow("B-2", "", {}),
      LabRow("", "2-4", {"Moisture Content"}), LabRow("B-2", "4-6", {}),
      LabRow("Notes", "1", {}) }

RECURSIVE RowSeqs(_)
\* The sequences of at most n rows.
RowSeqs(n) ==
    IF n = 0 THEN {<<>>}
    ELSE LET shorter == RowSeqs(n - 1)
         IN  shorter \cup { Append(rows, row) : rows \in shorter, row \in LabRowKinds }

\* Any lab file is about to be parsed.
InitParse ==
    /\ CheckDuplicateCans = TRUE
    /\ loopVarPerIteration = TRUE
    /\ ovenFile = OvenAbsent
    /\ ovenRet = Ret("none", "", "", "nil", NoCan)
    /\ InitProgress
    /\ workDoc = [j \in Jobs |-> LabAbsent]
    /\ exportDoc = [j \in Jobs |-> ExportAbsent]
    /\ backupFile = [j \in Jobs |-> BackupAbsent]
    /\ sess = NoSession
    /\ log = Log("none", 0, "menu")
    /\ faults = 0
    /\ labRows \in RowSeqs(MaxLabRows)
    /\ jobData = NoJobData
    /\ morning = NoMorning
    /\ InitTimer

\* A direct call of ExcelToJSON on the lab file.
ExcelToJSONCall ==
    /\ jobData' = ExcelToJSON(labRows)
    /\ log' = Log("parse", 0, "parsed")
    /\ UNCHANGED <<configVars, timerVars, ovenVars, progressVars, workDoc, exportDoc, backupFile,
                   sess, faults, labRows, morning>>

NextParse == ExcelToJSONCall

SpecParse == InitParse /\ [][NextParse]_vars

\* The working document of job J1 after the captures of containers c1 and
\* c2 for its two moisture columns.
MorningDoc ==
    SetMoistureCells(
        SetMoistureCells(SourceDoc("J1"), [sheet |-> "Moisture", column |-> <<"B">>],
                         "c1", "10", "150"),
        [sheet |-> "Moisture", column |-> <<"C">>], "c2", "10", "60")

\* The containers put in the oven before a morning count.
MorningCans == {"c1", "c2"}

\* There is no ledger yet, job J1 has a working document and job J2 has
\* none; the build is of either language version.
InitMorning ==
    /\ CheckDuplicateCans = TRUE
    /\ loopVarPerIteration \in BOOLEAN
    /\ ovenFile = OvenAbsent
    /\ ovenRet = Ret("none", "", "", "nil", NoCan)
    /\ InitProgress
    /\ workDoc = [j \in Jobs |-> IF j = "J1" THEN LabOk(MorningDoc) ELSE LabAbsent]
    /\ exportDoc = [j \in Jobs |-> ExportAbsent]
    /\ backupFile = [j \in Jobs |-> BackupAbsent]
    /\ sess = NoSession
    /\ log = Log("none", 0, "menu")
    /\ faults = 0
    /\ labRows = MainFormRows
    /\ jobData = NoJobData
    /\ morning = NoMorning
    /\ InitTimer

\* A container is put in the oven while the morning count screen is closed.
AddCanBeforeCount ==
    \E c \in MorningCans, in \in OvenInputs, o \in IOOutcomes :
        /\ ~morning.open
        /\ AddCanToOven(c, in, o)
        /\ UNCHANGED <<configVars, timerVars, parseVars, morning, progressVars, sessionVars>>

NextMorning ==
    \/ AddCanBeforeCount
    \/ OpenMorningCount
    \/ saveDryWeight
    \/ DismissDryError
    \/ CloseMorningCount

SpecMorning == InitMorning /\ [][NextMorning]_vars

\* The weights a capture may have stored in rows 12 and 15 of a column.
WeightTexts == {"5", "10", "60", "150"}

\* Container c1 is in the oven for column B of sheet Moisture of job J1,
\* whose working document holds any wet weight and any container weight
\* for it.
InitDryWeight ==
    /\ CheckDuplicateCans = TRUE
    /\ loopVarPerIteration = TRUE
    /\ ovenFile = OvenOk(<<NewOvenCan("c1",
                      [job |-> "J1", boring |-> "B-1", depth |-> "0-2",
                       sheet |-> "Moisture", column |-> <<"B">>, time |-> "t1"])>>)
    /\ ovenRet = Ret("none", "", "", "nil", NoCan)
    /\ InitProgress
    /\ \E W \in WeightTexts, C \in WeightTexts :
          workDoc = [j \in Jobs |->
                       IF j = "J1"
                       THEN LabOk(SetMoistureCells(SourceDoc("J1"),
                                      [sheet |-> "Moisture", column |-> <<"B">>],
                                      "c1", C, W))
                       ELSE LabAbsent]
    /\ exportDoc = [j \in Jobs |-> ExportAbsent]
    /\ backupFile = [j \in Jobs |-> BackupAbsent]
    /\ sess = NoSession
    /\ log = Log("none", 0, "menu")
    /\ faults = 0
    /\ labRows = MainFormRows
    /\ jobData = NoJobData
    /\ morning = NoMorning
    /\ InitTimer

NextDryWeight ==
    \/ OpenMorningCount
    \/ saveDryWeight
    \/ DismissDryError
    \/ CloseMorningCount

SpecDryWeight == InitDryWeight /\ [][NextDryWeight]_vars

\* A first session of job J1 in which no write fails.
InitTimerRun ==
    /\ CheckDuplicateCans = TRUE
    /\ loopVarPerIteration = TRUE
    /\ ovenFile = OvenAbsent
    /\ ovenRet = Ret("none", "", "", "nil", NoCan)
    /\ InitProgress
    /\ workDoc = [j \in Jobs |-> LabAbsent]
    /\ exportDoc = [j \in Jobs |-> ExportAbsent]
    /\ backupFile = [j \in Jobs |-> BackupAbsent]
    /\ sess = NoSession
    /\ log = Log("none", 0, "menu")
    /\ faults = MaxFaults
    /\ labRows = MainFormRows
    /\ jobData = NoJobData
    /\ morning = NoMorning
    /\ InitTimer

NextTimer ==
    \/ StartSession
    \/ Tick
    \/ updateTimeDisplay
    \/ DispatchKey
    \/ HandleSave
    \/ HandleOverride
    \/ HandleBack
    \/ ReturnToLoop

SpecTimer == InitTimerRun /\ [][NextTimer]_vars

\* The capture sessions of a day, with the duplicate check on or off.
Init ==
    /\ CheckDuplicateCans \in BOOLEAN
    /\ loopVarPerIteration = TRUE
    /\ ovenFile = OvenAbsent
    /\ ovenRet = Ret("none", "", "", "nil", NoCan)
    /\ InitProgress
    /\ InitSession

Next ==
    \/ StartSession
    \/ saveSample
    \/ OverrideAndSave
    \/ BackToForm
    \/ PressMinus
    \/ EditSave
    \/ PressPlus
    \/ ConfirmStop
    \/ FinishJob

Spec == Init /\ [][Next]_vars

----------------------------------------------------------------------------
(* Properties of the oven ledger, checked under SpecOven.                  *)

Ledger == LoadOvenTracking(ovenFile)

InLedger(c) == Ledger.err = "nil" /\ OvenContains(Ledger.cans, c)

\* C1: in every state reached by AddCanToOven and RemoveCanFromOven calls,
\* no container number is in more than one record of the stored ledger.
C1_UniqueContainer ==
    \A i, k \in 1..Len(ovenFile.cans) :
        ovenFile.cans[i].can_number = ovenFile.cans[k].can_number => i = k

\* A full ledger with records of both jobs, right after an add was refused.
C1_Witness ==
    /\ Len(ovenFile.cans) = 3
    /\ \E i, k \in 1..3 : ovenFile.cans[i].job_number # ovenFile.cans[k].job_number
    /\ ovenRet.op = "add" /\ ovenRet.err = "AlreadyOccupied"

\* C2: AddCanToOven for a container that is in the ledger returns
\* AlreadyOccupied, whatever the jobs, and leaves the stored ledger as it
\* was; so an add of c right after a successful add of c fails.
C2_AddOccupiedFails ==
    [][\A c \in Cans :
          (ovenRet'.op = "add" /\ ovenRet'.arg = c) =>
             /\ InLedger(c) => (ovenRet'.err = "AlreadyOccupied" /\ ovenFile' = ovenFile)
             /\ (ovenRet.op = "add" /\ ovenRet.arg = c /\ ovenRet.err = "nil")
                   => ovenRet'.err = "AlreadyOccupied"]_vars

\* An add by one job was refused because of a record owned by the other job.
C2_Witness ==
    /\ ovenRet.op = "add" /\ ovenRet.err = "AlreadyOccupied"
    /\ \E i \in 1..Len(ovenFile.cans) :
          /\ ovenFile.cans[i].can_number = ovenRet.arg
          /\ ovenFile.cans[i].job_number # ovenRet.job
    /\ Len(ovenFile.cans) >= 2

C13_CorruptLedgerRecovered ==
    [][(ovenFile.st = "corrupt" /\ ovenRet'.op = "add") =>
          /\ ovenRet'.err # "Malformed"
          /\ ovenRet'.err = "nil" =>
                /\ ovenFile'.st = "ok"
                /\ Len(ovenFile'.cans) = 1
                /\ ovenFile'.cans[1].can_number = ovenRet'.arg]_vars

----------------------------------------------------------------------------
(* Properties of the progress cursor, checked under SpecProgress.          *)

\* C8: LoadProgress of a job with no stored progress returns 0 and no
\* error; right after a successful SaveProgress(job, n) a LoadProgress(job)
\* returns n, whatever was stored before, and what the other jobs load is
\* as before; LoadProgress changes nothing.
C8_ProgressRoundTrip ==
    [][\A j \in Jobs :
          /\ (progressRet'.op = "load" /\ progressRet'.job = j) =>
                /\ progressFile[j].st = "absent"
                      => (progressRet'.n = 0 /\ progressRet'.err = "nil")
                /\ (progressRet.op = "save" /\ progressRet.job = j /\ progressRet.err = "nil")
                      => (progressRet'.n = progressRet.n /\ progressRet'.err = "nil")
                /\ progressFile' = progressFile
          /\ (progressRet'.op = "save" /\ progressRet'.job = j /\ progressRet'.err = "nil") =>
                /\ LoadProgress(progressFile'[j]) = [n |-> progressRet'.n, err |-> "nil"]
                /\ \A k \in Jobs \ {j} : progressFile'[k] = progressFile[k]]_vars

\* A load returned a stored two-digit index while the other job holds another.
C8_Witness ==
    /\ progressRet = PRet("load", "J1", 12, "nil")
    /\ progressFile["J2"].st = "ok"
    /\ LoadProgress(progressFile["J2"]).n = 7

----------------------------------------------------------------------------
(* Properties of the backup log, checked under SpecBackup.                 *)

\* C11: a successful SaveSampleBackup on a log that parses adds exactly one
\* record at the end, the record of its arguments, keeps the earlier records
\* in their order, and stores the number of records as the total count; in
\* every state the total count of a stored log is the number of its records.
C11_AppendKeepsLog ==
    /\ [](\A j \in Jobs :
            backupFile[j].st = "ok" =>
               backupFile[j].total_samples = Len(backupFile[j].samples))
    /\ [][\A j \in Jobs :
            (/\ log'.op = "backup" /\ log'.backup = "nil"
             /\ backupFile'[j] # backupFile[j] /\ backupFile[j].st = "ok") =>
               LET old == backupFile[j].samples
                   new == backupFile'[j].samples
               IN  /\ backupFile'[j].st = "ok"
                   /\ Len(new) = Len(old) + 1
                   /\ SubSeq(new, 1, Len(old)) = old
                   /\ backupFile'[j].total_samples = Len(old) + 1
                   /\ \E in \in BackupInputs, t \in Clock :
                         new[Len(new)] = NewSampleBackup(j, in.key, in.form.canNum,
                                            in.form.canWeight, in.form.wetWeight,
                                            in.form.suctionNum, t)]_vars

\* A log of three records, the last appended to two earlier ones.
C11_Witness ==
    /\ log.op = "backup" /\ log.backup = "nil"
    /\ backupFile["J1"].st = "ok"
    /\ Len(backupFile["J1"].samples) = 3
    /\ backupFile["J1"].samples[1].can_number # backupFile["J1"].samples[3].can_number

\* C12: SaveSampleBackup on a missing or unparsable log whose write goes
\* through returns no error, and the stored log afterwards parses and holds
\* exactly the new record, with total count 1.
C12_AppendResetsLog ==
    [][\A j \in Jobs :
         (/\ log'.op = "backup" /\ log'.result = "ok"
          /\ backupFile'[j] # backupFile[j] /\ backupFile[j].st \in {"absent", "corrupt"}) =>
            /\ log'.backup = "nil"
            /\ backupFile'[j].st = "ok"
            /\ Len(backupFile'[j].samples) = 1
            /\ backupFile'[j].total_samples = 1
            /\ backupFile'[j].job_number = j
            /\ \E in \in BackupInputs, t \in Clock :
                  backupFile'[j].samples[1] = NewSampleBackup(j, in.key, in.form.canNum,
                                                 in.form.canWeight, in.form.wetWeight,
                                                 in.form.suctionNum, t)]_vars

\* A log of one record stored over an unparsable file of the other job's kind:
\* the file of J2 is unparsable while that of J1 was reset and holds one record.
C12_Witness ==
    /\ log.op = "backup" /\ log.result = "ok" /\ log.backup = "nil"
    /\ backupFile["J1"].st = "ok" /\ Len(backupFile["J1"].samples) = 1
    /\ backupFile["J2"].st = "corrupt"

----------------------------------------------------------------------------
(* Properties of the export, checked under SpecExportRun and               *)
(* SpecExportReopen.                                                       *)

\* C14: in a session on a new export that is never closed, every successful
\* soil suction write adds one record to the saved export, and the saved
\* export of n records has ceil(n / 37) pages (one page for none), each
\* page with its header in row 1 and at most 37 records below it in rows
\* 2 on without a gap, every page but the last full.
C14_ExportPagination ==
    /\ [](exportDoc["J1"].st = "ok" =>
            LET pages == exportDoc["J1"].pages
                n     == DataRows(pages)
            IN  /\ Len(pages) = IF n = 0 THEN 1 ELSE (n + 36) \div 37
                /\ \A p \in 1..Len(pages) :
                      /\ pages[p][1] = HeaderRow
                      /\ Len(pages[p]) - 1 <= 37
                      /\ \A r \in 2..Len(pages[p]) : pages[p][r] \notin {BlankRow, HeaderRow}
                      /\ p < Len(pages) => Len(pages[p]) - 1 = 37
                      /\ (p = Len(pages) /\ p > 1) => Len(pages[p]) >= 2)
    /\ [][(log'.op = "suction" /\ log'.suction = "nil") =>
            DataRows(exportDoc'["J1"].pages) = DataRows(exportDoc["J1"].pages) + 1]_vars

\* The export after 38 writes: two pages, one record on the second.
C14_Witness ==
    /\ exportDoc["J1"].st = "ok"
    /\ Len(exportDoc["J1"].pages) = 2
    /\ Len(exportDoc["J1"].pages[1]) = 38
    /\ Len(exportDoc["J1"].pages[2]) = 2
    /\ log.op = "suction" /\ log.suction = "nil"

\* C15: whenever a session was closed and the export reopened, a successful
\* soil suction write on an export of n records stores its record where a
\* session that was never closed stores record n + 1: on page n div 37 + 1,
\* which exists and has its header, in row n mod 37 + 2.
C15_ReopenSameCells ==
    [][(log'.op = "suction" /\ log'.suction = "nil") =>
         LET n     == DataRows(exportDoc["J1"].pages)
             p     == (n \div 37) + 1
             r     == (n % 37) + 2
             pages == exportDoc'["J1"].pages
         IN  /\ Len(pages) >= p
             /\ pages[p][1] = HeaderRow
             /\ Len(pages[p]) = r
             /\ pages[p][r].can = "s1"
             /\ DataRows(pages) = n + 1]_vars

----------------------------------------------------------------------------
(* Properties of the capture session, checked under Spec.                  *)

\* C5: a capture whose moisture write, soil suction write or backup append
\* failed leaves the sample index of the session and the stored progress
\* of the job as they were.
C5_FailedWriteKeepsCursor ==
    [][(/\ log'.op = "capture" /\ log'.result = "saved"
        /\ \/ log'.moisture \notin {"nil", "skipped"}
           \/ log'.suction \notin {"nil", "skipped"}
           \/ log'.backup \notin {"nil", "skipped"})
       => /\ sess'.currentSampleIndex = sess.currentSampleIndex
          /\ progressFile' = progressFile]_vars

\* The keys the writers are asked about: those of the samples and one more.
ProbeKeys == {<<"B-1", "0-2">>, <<"B-1", "2-4">>, <<"B-2", "0-2">>, <<"B-9", "0-2">>}

\* C6: in every state of a session, a writer given a key its index lacks
\* returns NoMapping and changes nothing: WriteMoistureSample leaves the
\* open workbook and the saved one as they are; WriteSoilSuctionSample
\* leaves the open workbook, the saved one, the export and the page cursor
\* as they are.  And a capture whose writers returned NoMapping leaves the
\* workbook, the export and the cursor unchanged.
C6_NoMappingNoEffect ==
    /\ [](sess.active =>
            \A key \in ProbeKeys, in \in CaptureInputs, o \in {"ok", "failUnchanged"} :
              LET disk == workDoc[sess.job].sheets
                  mw   == [file |-> sess.file, sampleColMap |-> sess.sampleColMap]
                  m    == WriteMoistureSample(mw, disk, key, in.canNum, in.canWeight,
                                              in.wetWeight, o)
                  s    == WriteSoilSuctionSample(sess.sw, sess.file, disk,
                                                 exportDoc[sess.job], key, in.suctionNum,
                                                 "t1", o, o)
              IN  /\ key \notin DOMAIN sess.sampleColMap =>
                        m = [err |-> "NoMapping", file |-> sess.file, disk |-> disk]
                  /\ (sess.sw.open /\ key \notin DOMAIN sess.sw.sampleRowMap) =>
                        s = [err |-> "NoMapping", file |-> sess.file, disk |-> disk,
                             w |-> sess.sw, exp |-> exportDoc[sess.job]])
    /\ [][/\ log'.suction = "NoMapping" =>
                (exportDoc' = exportDoc /\ sess'.sw = sess.sw)
          /\ (log'.moisture = "NoMapping" /\ log'.suction \in {"NoMapping", "skipped"}) =>
                (sess'.file = sess.file /\ workDoc' = workDoc)]_vars

\* A capture of the sample that has no column and no row: both writers
\* returned NoMapping.
C6_Witness ==
    /\ log.op = "capture" /\ log.result = "saved"
    /\ log.moisture = "NoMapping" /\ log.suction = "NoMapping"
    /\ sess.last.boringNumber = "B-2"

\* C7: a session started while the stored progress of the job is k > 0
\* starts at index k, and its first capture is of sample k: the capture ran
\* at index k, recorded the key of sample k, and when the moisture write
\* succeeded the column of sample k holds the entered container and weights
\* while every other column is as before.
C7_ResumeAtCursor ==
    [][LET job    == IF sess.active THEN sess.job ELSE sess'.job
           loaded == LoadProgress(progressFile[job])
           k      == loaded.n
       IN  (sess'.active /\ loaded.err = "nil" /\ k > 0) =>
             /\ (log'.op = "start" /\ ~sess.active) => sess'.currentSampleIndex = k
             /\ (/\ sess.active /\ sess.last.sampleIndex = -1
                 /\ log'.op = "capture" /\ log'.result = "saved") =>
                   /\ log'.index = k
                   /\ sess'.last.sampleIndex = k
                   /\ <<sess'.last.boringNumber, sess'.last.depth>>
                         = SampleKey(JobSamples(job)[k + 1])
                   /\ log'.moisture = "nil" =>
                         LET loc == BuildSampleColMap(SourceDoc(job))[SampleKey(JobSamples(job)[k + 1])]
                             s   == SheetIndex(sess.file, loc.sheet)
                             c   == ColumnElement(loc.column)
                         IN  /\ sess'.file[s].cols[c].r11 = sess'.last.canNumber
                             /\ sess'.file[s].cols[c].r12 = sess'.last.wetWeight
                             /\ sess'.file[s].cols[c].r15 = sess'.last.canWeight
                             /\ \A s2 \in 1..Len(sess.file) : \A c2 \in 1..Len(sess.file[s2].cols) :
                                   <<s2, c2>> # <<s, c>> =>
                                      sess'.file[s2].cols[c2] = sess.file[s2].cols[c2]]_vars

\* The first capture of a session that resumed at index 1 wrote sample 1.
C7_Witness ==
    /\ CheckDuplicateCans
    /\ log.op = "capture" /\ log.result = "saved" /\ log.index = 1
    /\ log.moisture = "nil"
    /\ Cardinality(sess.usedMoistureCans) = 1
    /\ sess.last.sampleIndex = 1

\* C9: an edit that succeeded on a backup log replaced the container
\* number, the container weight, the wet weight and the suction container
\* number of the most recent record of the key of the last sample, and left
\* every other record and the order of the records unchanged.
C9_EditUpdatesMostRecent ==
    [][(log'.op = "edit" /\ log'.result = "updated") =>
         LET old   == backupFile[sess.job].samples
             new   == backupFile'[sess.job].samples
             match == { i \in 1..Len(old) :
                          /\ old[i].boring_number = sess.last.boringNumber
                          /\ old[i].depth = sess.last.depth }
             top   == CHOOSE i \in match : \A k \in match : k <= i
         IN  /\ Len(new) = Len(old)
             /\ \A i \in 1..Len(old) :
                   new[i] = IF i = top
                            THEN [old[i] EXCEPT !.can_number = sess'.last.canNumber,
                                                !.can_weight = sess'.last.canWeight,
                                                !.wet_weight = sess'.last.wetWeight,
                                                !.suction_can_no = sess'.last.suctionCanNo]
                            ELSE old[i]]_vars

C16_ExportAppendOnly ==
    [][/\ \A p \in 1..Len(exportDoc["J1"].pages) :
             \A r \in 2..Len(exportDoc["J1"].pages[p]) :
                /\ p <= Len(exportDoc'["J1"].pages)
                /\ r <= Len(exportDoc'["J1"].pages[p])
                /\ exportDoc'["J1"].pages[p][r] = exportDoc["J1"].pages[p][r]
       /\ (log'.op \in {"capture", "edit"} /\ log'.suction = "nil") =>
             DataRows(exportDoc'["J1"].pages) = DataRows(exportDoc["J1"].pages) + 1]_vars

\* The populated moisture columns of a document: the columns from B on of
\* its moisture-family sheets whose boring and depth labels are not blank.
PopulatedColumns(doc) ==
    { sc \in (1..Len(doc)) \X (1..8) :
        /\ sc[2] <= Len(doc[sc[1]].cols)
        /\ IsMoistureSheet(doc[sc[1]].name)
        /\ TrimSpace(doc[sc[1]].cols[sc[2]].boring) # ""
        /\ TrimSpace(doc[sc[1]].cols[sc[2]].depth) # "" }

\* The (boring, depth) keys of the populated moisture columns.
PopulatedKeys(doc) ==
    { <<TrimSpace(doc[sc[1]].cols[sc[2]].boring), TrimSpace(doc[sc[1]].cols[sc[2]].depth)>> :
        sc \in PopulatedColumns(doc) }

C18_WriteKeepsIndex ==
    [][log'.op = "write" =>
         /\ log'.moisture = "nil" =>
               InitMoistureTestFile(workDoc'["J1"], SourceDoc("J1")).w.sampleColMap
                   = sess.sampleColMap
         /\ \A s \in 1..Len(sess.file) : \A c \in 1..Len(sess.file[s].cols) :
               /\ sess'.file[s].cols[c].boring = sess.file[s].cols[c].boring
               /\ sess'.file[s].cols[c].depth = sess.file[s].cols[c].depth
               /\ workDoc'["J1"].sheets[s].cols[c].boring
                     = workDoc["J1"].sheets[s].cols[c].boring
               /\ workDoc'["J1"].sheets[s].cols[c].depth
                     = workDoc["J1"].sheets[s].cols[c].depth]_vars

\* A write succeeded for a key two columns carry: the later column holds the
\* container number in the saved document.
C18_Witness ==
    /\ log.op = "write"
    /\ log.moisture = "nil"
    /\ Cardinality(PopulatedColumns(workDoc["J1"].sheets))
          > Cardinality(DOMAIN sess.sampleColMap)
    /\ \E s \in 1..Len(workDoc["J1"].sheets) :
          \E c \in 1..Len(workDoc["J1"].sheets[s].cols) :
             workDoc["J1"].sheets[s].cols[c].r11 = "c1"

\* The indexes of the rows of a lab file that give a sample, in row order.
SampleRowIndexes(rows) ==
    { i \in 1..Len(rows) :
        /\ IsSampleRow(rows[i], HeaderRows + i - 1)
        /\ TrimSpace(rows[i].depth) # "" }

\* The identifier of the nearest row at or before row i whose first cell
\* carries an explicit boring identifier; empty when there is none.
NearestExplicitBoring(rows, i) ==
    LET explicit == { j \in 1..i : HasPrefixB(TrimSpace(rows[j].first)) }
    IN  IF explicit = {} THEN ""
        ELSE TrimSpace(rows[CHOOSE j \in explicit : \A k \in explicit : k <= j].first)

\* C19: in the parsed sample list, the sample of every row takes the boring
\* identifier of the nearest document row at or before it that has an
\* explicit one, also when that row has no depth, and the empty identifier
\* when no row before it has one.
C19_ContinuationInherits ==
    jobData.parsed =>
        /\ Len(jobData.samples) = Cardinality(SampleRowIndexes(labRows))
        /\ \A k \in 1..Len(jobData.samples) :
              \E i \in SampleRowIndexes(labRows) :
                 /\ Cardinality({ j \in SampleRowIndexes(labRows) : j <= i }) = k
                 /\ jobData.samples[k].boring = NearestExplicitBoring(labRows, i)

\* C20: the dry weight write for a container is made only after the
\* container was removed from the oven ledger: among the calls of a dry
\* weight entry, every call of WriteDryWeightToMoistureSheet comes after a
\* successful RemoveCanFromOven of the same container, and is given the
\* (sheet, column) of the record that call returned.
C20_WriteAfterRemoval ==
    \A i \in 1..Len(morning.calls) :
        morning.calls[i].fn = "WriteDryWeightToMoistureSheet" =>
            \E j \in 1..(i - 1) :
                /\ morning.calls[j].fn = "RemoveCanFromOven"
                /\ morning.calls[j].can = morning.calls[i].can
                /\ morning.calls[j].err = "nil"
                /\ morning.calls[j].rec.moisture_sheet = morning.calls[i].rec.moisture_sheet
                /\ morning.calls[j].rec.moisture_column = morning.calls[i].rec.moisture_column

\* C21: a dry weight write that is given the record of column B computes,
\* from the wet weight W of row 12, the container weight C of row 15 and
\* the dry weight D entered: row 13 = D, row 14 = W - D, row 16 = D - C and
\* row 17 = 100 * (W - D) / (D - C) when D - C > 0 and exactly 0 otherwise;
\* and it fails only when the working document cannot be saved, whatever
\* the dry soil weight.
C21_DerivedValues ==
    [][(log'.op = "dry" /\ log'.moisture # "skipped") =>
         LET before == workDoc["J1"].sheets[2].cols[1]
             after  == workDoc'["J1"].sheets[2].cols[1]
             W      == ParseFloat(before.r12).v
             C      == ParseFloat(before.r15).v
             D      == after.r13
         IN  IF log'.moisture = "nil"
             THEN /\ \E in \in DryInputs : in[1] = "c1" /\ ParseFloat(in[2]).v = D
                  /\ after.r14 = W - D
                  /\ after.r16 = D - C
                  /\ D - C > 0 => after.r17.num * (D - C) = 100 * (W - D) * after.r17.den
                  /\ D - C > 0 => after.r17.den # 0
                  /\ D - C <= 0 => after.r17.num = 0 /\ after.r17.den = 1
             ELSE /\ log'.moisture = "IOFailure"
                  /\ workDoc' = workDoc]_vars

\* A dry weight equal to the container weight was saved: the dry soil
\* weight is 0 and the moisture content written is 0.
C21_Witness ==
    /\ log.op = "dry" /\ log.moisture = "nil"
    /\ workDoc["J1"].sheets[2].cols[1].r16 = 0
    /\ workDoc["J1"].sheets[2].cols[1].r14 # 0
    /\ workDoc["J1"].sheets[2].cols[1].r17.num = 0

\* C22: the timer of a capture session writes nothing but the queue of
\* refreshes, and its refresh nothing but the timing box: neither changes
\* the ledger, the backup log, the progress file, the documents or the
\* session (its sample index included); and the refresh runs only while the
\* event loop is idle, never between the steps of a capture that a handler
\* is running.
C22_TimerIsolated ==
    [][(updates' # updates \/ timeDisplay' # timeDisplay) /\ sess.active =>
         /\ UNCHANGED <<ovenFile, backupFile, progressFile, workDoc, exportDoc, sess>>
         /\ timeDisplay' # timeDisplay => handler = "idle" /\ handler' = "idle"]_vars

\* A refresh has run after the first capture while another one was queued.
C22_Witness ==
    /\ sess.active
    /\ sess.currentSampleIndex = 1
    /\ timeDisplay.samplesDone = 1
    /\ updates > 0

\* C23: a session start copies the source document to the working path
\* only when there is no working copy; an existing working copy is left as
\* it is and opened, so every cell saved by an earlier session is in the
\* open workbook; and no operation changes the source document.
C23_CopyOnFirstUse ==
    [][/\ labRows' = labRows
       /\ (~sess.active /\ sess'.active) =>
             /\ workDoc["J1"].st = "absent" =>
                   workDoc'["J1"] = LabOk(SourceDoc("J1"))
             /\ workDoc["J1"].st = "ok" =>
                   /\ workDoc'["J1"] = workDoc["J1"]
                   /\ sess'.file = workDoc["J1"].sheets]_vars

\* A session has started on a working copy in which an earlier session
\* saved a container number.
C23_Witness ==
    /\ log.op = "start"
    /\ sess.active
    /\ sess.file = workDoc["J1"].sheets
    /\ sess.file # SourceDoc("J1")
    /\ \E c \in 1..Len(sess.file[2].cols) : sess.file[2].cols[c].r11 # ""

\* C24: IsCanInOven(c) returns true with a stored record whose container
\* number is c exactly when c is in the ledger, and false otherwise;
\* GetOvenCanCount is the number of records GetCansInOven returns; a
\* successful add raises the count by exactly 1 and a successful remove
\* lowers it by exactly 1; and no query changes the stored ledger.
C24_LedgerQueries ==
    [][/\ ovenRet'.op \in {"isIn", "list", "count"} => ovenFile' = ovenFile
       /\ ovenRet'.op = "isIn" =>
             /\ ovenRet'.found <=>
                   \E i \in 1..Len(ovenFile.cans) :
                      ovenFile.cans[i].can_number = ovenRet'.arg
             /\ ovenRet'.found =>
                   /\ ovenRet'.rec.can_number = ovenRet'.arg
                   /\ \E i \in 1..Len(ovenFile.cans) : ovenFile.cans[i] = ovenRet'.rec
       /\ ovenRet'.op = "count" =>
             /\ ovenRet'.count = Len(GetCansInOven(ovenFile).cans)
             /\ ovenRet'.err = GetCansInOven(ovenFile).err
       /\ (ovenRet' # ovenRet /\ ovenRet'.op = "add" /\ ovenRet'.err = "nil") =>
             GetOvenCanCount(ovenFile').n = GetOvenCanCount(ovenFile).n + 1
       /\ (ovenRet' # ovenRet /\ ovenRet'.op = "remove" /\ ovenRet'.err = "nil") =>
             GetOvenCanCount(ovenFile').n = GetOvenCanCount(ovenFile).n - 1]_vars

\* A query found a container that is not the first of three in the ledger.
C24_Witness ==
    /\ ovenRet.op = "isIn" /\ ovenRet.found
    /\ Len(ovenFile.cans) = 3
    /\ ovenFile.cans[1].can_number # ovenRet.arg
    /\ ovenFile.cans[3].can_number # ovenRet.arg

\* C25: a load of the oven ledger followed by a save of what was loaded
\* leaves the ordered list of container records unchanged field for field,
\* and the ledger loadable, so any number of such cycles preserves the list.
C25_LedgerRoundTrip ==
    [][(ovenRet'.op = "cycle" /\ ovenRet'.err = "nil") =>
          /\ LoadOvenTracking(ovenFile').err = "nil"
          /\ LoadOvenTracking(ovenFile').cans = LoadOvenTracking(ovenFile).cans
          /\ ovenFile'.st = "ok"]_vars

\* A cycle has rewritten a ledger of three records.
C25_Witness ==
    /\ ovenRet.op = "cycle" /\ ovenRet.err = "nil"
    /\ Len(ovenFile.cans) = 3
    /\ \A i \in 1..3 : ovenFile.cans[i].moisture_column # <<>>

\* C26: with duplicate checking on, a session starts with no container
\* used; every accepted capture uses a moisture container that no earlier
\* accepted capture of the session used and that is not in the oven ledger
\* at that moment, and a soil-suction container, if any, that no earlier
\* accepted capture of the session used; the containers of the accepted
\* captures are recorded as used, and nothing else changes those records.
C26_NoDuplicateContainers ==
    [][CheckDuplicateCans =>
         /\ (~sess.active /\ sess'.active) =>
               sess'.usedMoistureCans = {} /\ sess'.usedSuctionCans = {}
         /\ (sess.active /\ sess'.active) =>
               IF sess'.currentSampleIndex = sess.currentSampleIndex + 1
               THEN /\ sess'.last.canNumber \notin sess.usedMoistureCans
                    /\ sess'.usedMoistureCans =
                          sess.usedMoistureCans \cup {sess'.last.canNumber}
                    /\ \A i \in 1..Len(ovenFile.cans) :
                          ovenFile.cans[i].can_number # sess'.last.canNumber
                    /\ sess'.last.suctionCanNo \notin sess.usedSuctionCans
                    /\ sess'.usedSuctionCans =
                          IF sess'.last.suctionCanNo = "" THEN sess.usedSuctionCans
                          ELSE sess.usedSuctionCans \cup {sess'.last.suctionCanNo}
               ELSE /\ sess'.usedMoistureCans = sess.usedMoistureCans
                    /\ sess'.usedSuctionCans = sess.usedSuctionCans]_vars

\* With the checks on, a capture with a moisture and a soil-suction
\* container was accepted.
C26_Witness ==
    /\ CheckDuplicateCans
    /\ log.op = "capture" /\ log.result = "saved"
    /\ sess.usedMoistureCans # {} /\ sess.usedSuctionCans # {}
    /\ \E i \in 1..Len(ovenFile.cans) :
          ovenFile.cans[i].can_number \notin sess.usedMoistureCans

----------------------------------------------------------------------------
(* Properties of the scans of both sheet families, checked under           *)
(* SpecFamilies.  A sheet is of a family when its name is the family name   *)
(* or the family name followed by a suffix without a separator.            *)

MoistureFamily == {"Moisture", "Moisture2"}

SuctionFamily == {"Soil Suction", "Soil Suction2"}

FamilyKeys == {<<"B-1", "0-2">>, <<"B-1", "2-4">>}

\* The writers have been initialised and nothing has been written since.
Scanned == log.op = "scan" /\ log.suction = "nil"

\* The sheets of the moisture family that hold key in rows 9 and 10 of a column.
MoistureSheetsOf(doc, key) ==
    { s \in 1..Len(doc) :
        /\ doc[s].name \in MoistureFamily /\ doc[s].readable /\ doc[s].nrows >= 10
        /\ \E c \in 1..Len(doc[s].cols) :
              /\ TrimSpace(doc[s].cols[c].boring) = key[1]
              /\ TrimSpace(doc[s].cols[c].depth) = key[2] }

\* The sheets of the soil suction family that hold key in columns B and C of a row.
SuctionSheetsOf(doc, key) ==
    { s \in 1..Len(doc) :
        /\ doc[s].name \in SuctionFamily /\ doc[s].readable
        /\ \E r \in 1..Len(doc[s].rows) :
              /\ TrimSpace(doc[s].rows[r].boring) = key[1]
              /\ TrimSpace(doc[s].rows[r].depth) = key[2] }

LastOf(sheets) == CHOOSE s \in sheets : \A o \in sheets : o <= s

LaterMoistureSheetWins ==
    \A key \in FamilyKeys :
        Cardinality(MoistureSheetsOf(sess.file, key)) >= 2 =>
            /\ key \in DOMAIN sess.sampleColMap
            /\ sess.sampleColMap[key].sheet =
                  sess.file[LastOf(MoistureSheetsOf(sess.file, key))].name

LaterSuctionSheetWins ==
    \A key \in FamilyKeys :
        Cardinality(SuctionSheetsOf(sess.file, key)) >= 2 =>
            /\ key \in DOMAIN sess.sw.sampleRowMap
            /\ sess.sw.sampleRowMap[key].sheet =
                  sess.file[LastOf(SuctionSheetsOf(sess.file, key))].name

\* C27: after the writers are initialised, a key held by two sheets of the
\* same family has one entry in the index of the family, and the entry names
\* the later of those sheets in the sheet order of the document.
C27_LaterSheetWins ==
    Scanned => LaterMoistureSheetWins /\ LaterSuctionSheetWins

MoistureFamilyOnly ==
    /\ \A key \in DOMAIN sess.sampleColMap :
          sess.sampleColMap[key].sheet \in MoistureFamily
    /\ \A key \in FamilyKeys :
          MoistureSheetsOf(sess.file, key) # {} => key \in DOMAIN sess.sampleColMap

SuctionFamilyOnly ==
    /\ \A key \in DOMAIN sess.sw.sampleRowMap :
          sess.sw.sampleRowMap[key].sheet \in SuctionFamily
    /\ \A key \in FamilyKeys :
          SuctionSheetsOf(sess.file, key) # {} => key \in DOMAIN sess.sw.sampleRowMap

\* C28: after the writers are initialised, every key held by a sheet of a
\* family is in the index of the family, and no entry of either index names
\* a sheet outside the family, such as a decorated variant of its name.
C28_FamilySheetsOnly ==
    Scanned => MoistureFamilyOnly /\ SuctionFamilyOnly

\* The document has no sheet of the family that is readable and long enough.
NoMoistureSheet(doc) ==
    \A s \in 1..Len(doc) :
        doc[s].name \in MoistureFamily => ~doc[s].readable \/ doc[s].nrows < 10

NoSuctionSheet(doc) ==
    \A s \in 1..Len(doc) :
        doc[s].name \in SuctionFamily => ~doc[s].readable \/ doc[s].nrows < 10

EmptyMoistureIndex ==
    NoMoistureSheet(sess.file) =>
        /\ Scanned => DOMAIN sess.sampleColMap = {}
        /\ log.op = "write" => log.moisture = "NoMapping"

EmptySuctionIndex ==
    NoSuctionSheet(sess.file) =>
        /\ Scanned => DOMAIN sess.sw.sampleRowMap = {}
        /\ log.op = "suctionWrite" => log.suction = "NoMapping"

\* C29: the initialisation of the writers returns no error when the export
\* can be created; on a document whose sheets of a family are missing, too
\* short or unreadable the index of the family is then empty, and every
\* later write of the family returns NoMapping.
C29_MissingSheetsEmptyIndex ==
    /\ (log.op = "scan" /\ log.result = "ok") =>
          log.moisture = "nil" /\ log.suction = "nil"
    /\ EmptyMoistureIndex
    /\ EmptySuctionIndex

----------------------------------------------------------------------------
(* The sample index of a session and the stored progress, under Spec.      *)

\* C30: in every state of a session the sample index is between 0 and the
\* number of samples; it never decreases while the session lasts; a capture
\* is accepted only below the number of samples and advances the index by
\* exactly 1; and after every accepted capture the stored progress of the
\* job loads without error as the sample index of the session.
C30_CursorFollowsIndex ==
    /\ [](sess.active =>
            sess.currentSampleIndex >= 0 /\ sess.currentSampleIndex <= totalSamples)
    /\ [][/\ (sess.active /\ sess'.active) =>
                sess'.currentSampleIndex >= sess.currentSampleIndex
          /\ (log'.op = "capture" /\ log'.result = "saved" /\ log' # log) =>
                /\ sess.currentSampleIndex < totalSamples
                /\ sess'.currentSampleIndex = sess.currentSampleIndex + 1
                /\ LoadProgress(progressFile'[sess.job]).err = "nil"
                /\ LoadProgress(progressFile'[sess.job]).n = sess'.currentSampleIndex]_vars

----------------------------------------------------------------------------
(* The shared handle of the lab workbook, under Spec.                      *)

----------------------------------------------------------------------------
(* Rejected captures, under Spec.                                          *)

Rejections ==
    {"Required", "SuctionRequired", "NotANumber", "WetNotAboveCan",
     "DuplicateUse", "AlreadyOccupied", "DuplicateSuctionUse"}

\* C32: a capture that validation rejects (a missing field, a weight that
\* is not a number, a wet weight not above the container weight, a container
\* already used in the session or already in the oven) leaves the lab
\* workbook, open and saved, the export, the backup log, the oven ledger,
\* the stored progress, the sample index and both sets of used containers
\* as they were.
C32_RejectionChangesNothing ==
    [][(/\ log'.op \in {"save", "capture"}
        /\ log'.result \in Rejections
        /\ sess.screen \in {"form", "warn"} /\ sess'.screen = "error")
       => /\ UNCHANGED <<workDoc, exportDoc, backupFile, ovenFile, progressFile>>
          /\ sess'.file = sess.file
          /\ sess'.sw = sess.sw
          /\ sess'.currentSampleIndex = sess.currentSampleIndex
          /\ sess'.usedMoistureCans = sess.usedMoistureCans
          /\ sess'.usedSuctionCans = sess.usedSuctionCans
          /\ sess'.last = sess.last]_vars

\* A capture was refused for a container used earlier in the session.
C32_Witness ==
    /\ sess.active /\ sess.screen = "error"
    /\ log.op = "capture" /\ log.result = "DuplicateUse"
    /\ sess.currentSampleIndex = 1
    /\ sess.usedMoistureCans # {}

----------------------------------------------------------------------------
(* The oven ledger and the captures of a session, under Spec.              *)

\* The stored ledger holds a record of container c for sample key of job at
\* the cell location loc.
LedgerRecordOf(file, c, job, key, loc) ==
    \E i \in 1..Len(file.cans) :
        /\ file.cans[i].can_number = c
        /\ file.cans[i].job_number = job
        /\ file.cans[i].boring_number = key[1]
        /\ file.cans[i].depth = key[2]
        /\ file.cans[i].moisture_sheet = loc.sheet
        /\ file.cans[i].moisture_column = loc.column

\* C33: after every accepted capture of a sample that has a moisture
\* mapping, the stored ledger holds a record of the captured container with
\* the job, the boring and the depth of the sample and the sheet and column
\* the moisture writer wrote to.
C33_CaptureRegistersCan ==
    [][(/\ log'.op = "capture" /\ log'.result = "saved" /\ log' # log
        /\ <<sess'.last.boringNumber, sess'.last.depth>> \in DOMAIN sess.sampleColMap)
       => LedgerRecordOf(ovenFile', sess'.last.canNumber, sess.job,
                         <<sess'.last.boringNumber, sess'.last.depth>>,
                         sess.sampleColMap[<<sess'.last.boringNumber, sess'.last.depth>>])]_vars

\* C34: as long as no write has failed, in every state reached from empty
\* stores by captures, edits, stops and resumed sessions, the stored
\* progress of the job loads as the number of records of its backup log,
\* and record i of the log has the boring and the depth of sample i.
C34_CursorCountsBackup ==
    faults = 0 =>
        LET samples == backupFile["J1"].samples
        IN  /\ LoadProgress(progressFile["J1"]).err = "nil"
            /\ LoadProgress(progressFile["J1"]).n = Len(samples)
            /\ Len(samples) <= Len(JobSamples("J1"))
            /\ \A i \in 1..Len(samples) :
                  <<samples[i].boring_number, samples[i].depth>>
                      = SampleKey(JobSamples("J1")[i])

\* Without any failure, the second sample was captured in a session resumed
\* after the first.
C34_Witness ==
    /\ faults = 0 /\ CheckDuplicateCans
    /\ Len(backupFile["J1"].samples) = 2
    /\ Cardinality(sess.usedMoistureCans) = 1
    /\ log.op = "capture"

\* The backup log of the job of a ledger record holds a record for the same
\* boring and depth that carries the same container number.
AgreesWithBackup(can) ==
    /\ can.job_number \in Jobs
    /\ \E k \in 1..Len(backupFile[can.job_number].samples) :
          LET rec == backupFile[can.job_number].samples[k]
          IN  /\ rec.boring_number = can.boring_number
              /\ rec.depth = can.depth
              /\ rec.can_number = can.can_number

\* C35: as long as no write has failed, every record of the stored oven
\* ledger agrees with the backup log of its job: the log's record for the
\* boring and depth of the ledger record carries the same container number,
\* also after an edit of the last sample that changes the container.
C35_LedgerAgreesWithBackup ==
    faults = 0 =>
        \A i \in 1..Len(ovenFile.cans) : AgreesWithBackup(ovenFile.cans[i])

\* A cell that holds no value.
Blank(cell) == ToString(cell) = ToString("")

\* The stored working document of the job of a ledger record holds a value
\* in rows 13, 14, 16 and 17 of the column of the record.
FourValuesSaved(docs, can) ==
    /\ docs[can.job_number].st = "ok"
    /\ SheetIndex(docs[can.job_number].sheets, can.moisture_sheet) # 0
    /\ LET col == docs[can.job_number]
                      .sheets[SheetIndex(docs[can.job_number].sheets, can.moisture_sheet)]
                      .cols[ColumnElement(can.moisture_column)]
       IN  ~Blank(col.r13) /\ ~Blank(col.r14) /\ ~Blank(col.r16) /\ ~Blank(col.r17)

\* C36: a dry weight entry whose write fails (the working document cannot
\* be opened or saved) leaves the stored ledger and the list of the screen
\* as they were, the container still in the list; and a dry weight entry
\* takes a container out of the stored ledger only when the write returned
\* no error and the stored document holds its four values.
C36_FailedWriteKeepsCan ==
    [][(/\ morning.open /\ morning.screen = "form"
        /\ log'.op = "dry" /\ Len(morning'.calls) > 0)
       => LET rec == morning'.calls[1].rec
          IN  /\ morning'.calls[1].err # "nil"
                    => /\ ovenFile' = ovenFile
                       /\ morning'.cansInOven = morning.cansInOven
                       /\ OvenContains(morning'.cansInOven, rec.can_number)
                       /\ morning'.screen = "error"
              /\ (/\ OvenContains(ovenFile.cans, rec.can_number)
                  /\ ~OvenContains(ovenFile'.cans, rec.can_number))
                    => /\ morning'.calls[1].err = "nil"
                       /\ FourValuesSaved(workDoc', rec)]_vars

\* The dry weight write of a container of the ledger failed and the
\* container is in the stored ledger and in the list.
C36_Witness ==
    /\ morning.open /\ log.op = "dry" /\ log.result = "SaveFailed"
    /\ Len(morning.calls) = 1
    /\ OvenContains(ovenFile.cans, morning.calls[1].can)
    /\ OvenContains(morning.cansInOven, morning.calls[1].can)

\* Two stored documents differ at most in rows 13, 14, 16 and 17 of column
\* c of sheet s (and in the number of rows of that sheet).
SameButFourCells(before, after, s, c) ==
    /\ before.st = after.st
    /\ Len(before.sheets) = Len(after.sheets)
    /\ \A i \in 1..Len(before.sheets) :
          /\ before.sheets[i].name = after.sheets[i].name
          /\ before.sheets[i].rows = after.sheets[i].rows
          /\ before.sheets[i].readable = after.sheets[i].readable
          /\ Len(before.sheets[i].cols) = Len(after.sheets[i].cols)
          /\ i # s => before.sheets[i].nrows = after.sheets[i].nrows
          /\ \A k \in 1..Len(before.sheets[i].cols) :
                IF i = s /\ k = c
                THEN /\ before.sheets[i].cols[k].boring = after.sheets[i].cols[k].boring
                     /\ before.sheets[i].cols[k].depth = after.sheets[i].cols[k].depth
                     /\ ToString(before.sheets[i].cols[k].r11)
                            = ToString(after.sheets[i].cols[k].r11)
                     /\ ToString(before.sheets[i].cols[k].r12)
                            = ToString(after.sheets[i].cols[k].r12)
                     /\ ToString(before.sheets[i].cols[k].r15)
                            = ToString(after.sheets[i].cols[k].r15)
                ELSE before.sheets[i].cols[k] = after.sheets[i].cols[k]

\* C37: the dry weight write for a ledger record changes nothing in the
\* stored working documents but rows 13, 14, 16 and 17 of the column of the
\* record in the sheet of the record in the document of the job of the
\* record: rows 11, 12 and 15 of that column, every other column and sheet
\* and the documents of the other jobs are as before.
C37_OnlyFourCells ==
    [][(/\ morning.open /\ morning.screen = "form"
        /\ log'.op = "dry" /\ Len(morning'.calls) > 0)
       => LET rec == morning'.calls[1].rec
          IN  /\ \A j \in Jobs \ {rec.job_number} : workDoc'[j] = workDoc[j]
              /\ SameButFourCells(workDoc[rec.job_number], workDoc'[rec.job_number],
                                  SheetIndex(workDoc[rec.job_number].sheets,
                                             rec.moisture_sheet),
                                  ColumnElement(rec.moisture_column))]_vars

\* The dry weight of the container of column B was saved: its four rows
\* hold values, its rows 11, 12 and 15 are those of the capture, and column
\* C holds the capture of the other container and no dry weight.
C37_Witness ==
    /\ log.op = "dry" /\ log.moisture = "nil"
    /\ Len(morning.calls) > 0 /\ morning.calls[1].rec.moisture_column = <<"B">>
    /\ LET cols == workDoc["J1"].sheets[2].cols
       IN  /\ ~Blank(cols[1].r13) /\ ~Blank(cols[1].r17)
           /\ cols[1].r11 = "c1" /\ cols[1].r12 = "150" /\ cols[1].r15 = "10"
           /\ cols[2].r11 = "c2" /\ Blank(cols[2].r13)

\* No stored file is unparsable.
NoCorruptStore ==
    /\ ovenFile.st # "corrupt"
    /\ \A j \in Jobs : /\ progressFile[j].st # "corrupt"
                       /\ backupFile[j].st # "corrupt"
                       /\ workDoc[j].st # "corrupt"

\* No two records of the stored ledger of the same job name the same sheet
\* and column.
NoSharedTarget ==
    \A i, k \in 1..Len(ovenFile.cans) :
        (/\ i # k
         /\ ovenFile.cans[i].job_number = ovenFile.cans[k].job_number)
            => <<ovenFile.cans[i].moisture_sheet, ovenFile.cans[i].moisture_column>>
                   # <<ovenFile.cans[k].moisture_sheet, ovenFile.cans[k].moisture_column>>

\* C38: on a job whose samples have distinct (boring, depth) keys, no step
\* of a capture, an edit, a stop or a resumed session that starts and ends
\* with no stored file corrupted gives the stored ledger two records of the
\* same job that name the same (sheet, column): from a ledger without such
\* records the step leads to a ledger without such records.
C38_DistinctTargets ==
    [][(NoCorruptStore /\ NoCorruptStore' /\ NoSharedTarget) => NoSharedTarget']_vars

\* C39: a dry weight entry for a container that is not in the stored ledger
\* makes no dry weight write and leaves the ledger as it is; and after an
\* accepted dry weight entry the list of the morning count screen is the
\* list of the stored ledger, also when the removal from the ledger failed.
C39_ListEqualsLedger ==
    [][(/\ morning.open /\ morning.screen = "form" /\ log'.op = "dry"
        /\ ovenFile.st # "corrupt" /\ ovenFile'.st # "corrupt")
       => /\ (Len(morning'.calls) > 0
                 => OvenContains(ovenFile.cans, morning'.calls[1].can))
          /\ (Len(morning'.calls) = 0
                 => ovenFile' = ovenFile /\ workDoc' = workDoc)
          /\ (log'.result = "saved"
                 => morning'.cansInOven = LoadOvenTracking(ovenFile').cans)]_vars

====
